---- MODULE Spec2Model ----
(***************************************************************************)
(* Verification model of the topology-aware placement engine               *)
(* (package topologyaware: pool tree construction, score comparator,       *)
(* allocation / release lifecycle).                                        *)
(*                                                                         *)
(* Three specifications share the module:                                  *)
(*   CmpSpec  - compareScores / sortPoolsByScore over bounded inputs       *)
(*   Spec     - allocatePool / applyGrant / updateSharedAllocations /      *)
(*              releasePool over a fixed pool tree                         *)
(*   TopoSpec - buildPoolsByTopology over bounded hardware snapshots       *)
(***************************************************************************)
EXTENDS Integers, Sequences, FiniteSets, TLC

VARIABLES
    \* --- comparator inputs and result (CmpSpec)
    request,      \* the Request compareScores is called with
    scores,       \* map[int]Score: pool id -> Score
    affinity,     \* map[int]int32: pool id -> affinity weight
    sorted,       \* filteredPools after sort.Slice
    slot          \* the input slots set so far: <<last slot, count>>

cmpVars == <<request, scores, affinity, sorted, slot>>

VARIABLES
    \* --- the allocator (Spec)
    opt,             \* policy options: PinCPU, PinMemory
    sysReserved,     \* the reserved CPUs of the system (root supply)
    hideHT,          \* containers whose pod prefers hidden hyperthreads
    freeIsolated,    \* free isolated CPUs
    freeSharable,    \* free sharable CPUs
    grantedShared,   \* pool id -> shared millicpu granted
    grantedReserved, \* reserved millicpu granted
    grants,          \* p.allocations.grants: container id -> Grant
    saved,           \* the allocations table as last persisted
    cpusetCpus,      \* container cache: cpuset.cpus of every container
    cpusetMems,      \* container cache: cpuset.mems of every container
    cpuShares,       \* container cache: CPU shares of every container
    pc,              \* where the caller of the allocator is
    trigger,         \* the grant the caller is handling
    last,            \* the last operation and its outcome
    snap,            \* supplies before the last admit of a new container
    calls,           \* the admits and releases that changed the allocations
    pick             \* what the allocatePool call that just returned was given
                     \* and what it picked

allocVars == <<opt, sysReserved, hideHT, freeIsolated, freeSharable,
               grantedShared, grantedReserved, grants, saved, cpusetCpus,
               cpusetMems, cpuShares, pc, trigger, last, snap, calls, pick>>

VARIABLES
    \* --- the topology builder (TopoSpec)
    hw,          \* the hardware snapshot p.sys answers from
    hwSlot,      \* the snapshot slots set so far: <<last slot, count>>
    phase,       \* where buildPoolsByTopology is
    nodes,       \* the pool nodes created, each with its parent
    surrogates,  \* numaSurrogates: DRAM node id -> pool node
    todo,        \* the PMEM or HBM nodes assignNUMANodes has yet to assign
    call,        \* the map `assigned` of the running assignNUMANodes call
    assigned,    \* the map `assigned` of buildPoolsByTopology
    discovered,  \* pool node -> the NUMA nodes DiscoverSupply was given
    lastAssign   \* the last assignment of a PMEM or HBM node

topoVars == <<hw, hwSlot, phase, nodes, surrogates, todo, call, assigned,
              discovered, lastAssign>>

VARIABLES
    \* --- the metrics projection of the balloons policy (MetricsSpec)
    balloons,    \* p.balloons: the balloon instances
    cached,      \* the container ids p.cch.LookupContainer finds
    metrics,     \* the policy.Metrics GetMetrics returned last
    samples,     \* what the last Collect sent to its channel
    fresh,       \* metrics was taken from the current state, not yet collected
    run,         \* collected snapshots of the current state (history)
    prev,        \* the samples of the first of them (history)
    changes      \* how many changes the balloons have seen

metricsVars == <<balloons, cached, metrics, samples, fresh, run, prev, changes>>

vars == <<cmpVars, allocVars, topoVars, metricsVars>>

(***************************************************************************)
(* Generic helpers                                                         *)
(***************************************************************************)
\* nilnode: no pool (pool ids are naturals)
Nil == 0 - 1

RECURSIVE Pow(_, _)
Pow(b, e) == IF e = 0 THEN 1 ELSE b * Pow(b, e - 1)

\* Go integer division truncates toward zero.
GoDiv(a, b) == IF a >= 0 THEN a \div b ELSE -((-a) \div b)

(***************************************************************************)
(* The pool tree the comparator and the allocator work on: a single-socket *)
(* system whose socket (the root) has two CPU-ful DRAM NUMA nodes.         *)
(* Node ids are assigned in depth-first order (root = 0).                  *)
(***************************************************************************)
Pools == {0, 1, 2}

pools == <<0, 1, 2>>          \* p.pools, in depth-first order

Parent(n) == IF n = 0 THEN Nil ELSE 0

Children(n) == {c \in Pools : Parent(c) = n}

RECURSIVE AncestorsOf(_)
AncestorsOf(n) ==
    IF Parent(n) = Nil THEN {} ELSE {Parent(n)} \cup AncestorsOf(Parent(n))

\* the nodes on the path from n to the root, n excluded
ancestors == [n \in Pools |-> AncestorsOf(n)]

Ancestors(n) == ancestors[n]

\* the number of links from n to the root
RootDistance(n) == Cardinality(ancestors[n])

\* the nodes of the subtree under n, n included (what BreadthFirst visits)
subtree == [n \in Pools |-> {x \in Pools : x = n \/ n \in ancestors[x]}]

Subtree(n) == subtree[n]

\* p.depth: the largest RootDistance
TreeDepth == CHOOSE d \in {RootDistance(n) : n \in Pools} :
                 \A n \in Pools : RootDistance(n) <= d

(***************************************************************************)
(* Requests and scores                                                     *)
(***************************************************************************)
cpuNormal == "normal"
cpuReserved == "reserved"
cpuPreserve == "preserve"

lowPrio == "low"
normalPrio == "normal"
highPrio == "high"

memoryUnspec == "unspec"
memoryPreserve == "preserve"
memoryDRAM == "DRAM"
memoryPMEM == "PMEM"

\* memoryType.TypeMask(): the set of memory types a request names
TypeMask(memType) ==
    IF memType \in {memoryUnspec, memoryPreserve} THEN {} ELSE {memType}

\* memory type of every NUMA node of the fixed system (0, 1: DRAM; 2: PMEM)
NumaMemType(id) == IF id = 2 THEN memoryPMEM ELSE memoryDRAM

\* p.memZoneType(mask): the set of memory types of the nodes in the mask
memZoneType(mask) == {NumaMemType(id) : id \in mask}

\* An offer is <<>> (nil) or <<mask>>, mask being the offer's NodeMask.
NoOffer == <<>>

\* Hint scores are kept in halves (0 = 0.0, 1 = 0.5, 2 = 1.0); a hint map is
\* the sequence of its values (the keys play no role in the comparison).
HintMaps == {<<>>, <<0>>, <<1>>, <<2>>, <<0, 1>>, <<0, 2>>}

MaxHintLen == CHOOSE l \in {Len(h) : h \in HintMaps} :
                  \A h \in HintMaps : Len(h) <= l

RECURSIVE HintProduct(_, _)
HintProduct(h, nonZeroOnly) ==
    IF h = <<>> THEN 1
    ELSE (IF nonZeroOnly /\ Head(h) = 0 THEN 1 ELSE Head(h))
         * HintProduct(Tail(h), nonZeroOnly)

NonZeroCount(h) == Cardinality({k \in 1..Len(h) : h[k] # 0})

\* combineHintScores: <<combined, filtered>>, both scaled by 2^MaxHintLen so
\* that products of different numbers of factors compare as the floats do.
combineHintScores(h) ==
    IF Len(h) = 0 THEN <<0, 0>>
    ELSE <<HintProduct(h, FALSE) * Pow(2, MaxHintLen - Len(h)),
           IF NonZeroCount(h) = 0 THEN 0
           ELSE HintProduct(h, TRUE) * Pow(2, MaxHintLen - NonZeroCount(h))>>

RECURSIVE AffinitySum(_, _, _)
AffinitySum(affinities, S, node) ==
    IF S = {} THEN 0
    ELSE LET x == CHOOSE y \in S : TRUE
             d == IF RootDistance(x) >= RootDistance(node)
                  THEN RootDistance(x) - RootDistance(node)
                  ELSE RootDistance(node) - RootDistance(x)
         IN  Pow(3, d) * Pow(4, TreeDepth - d) * affinities[x]
             + AffinitySum(affinities, S \ {x}, node)

\* an affinity score that leaves out the subtree of the node
AffinityOfAncestorsOnly(affinities, node) ==
    AffinitySum(affinities, Ancestors(node), node)

\* affinityScore, scaled by 4^TreeDepth (Q = 3/4, so Q^d * 4^TreeDepth is an
\* integer for every distance d in the tree and the float sum is exact).
affinityScore(affinities, node) ==
    AffinitySum(affinities, Ancestors(node), node)
    + AffinitySum(affinities, Subtree(node), node)

(***************************************************************************)
(* compareScores: the tie-break ladder.  Each rung yields "true" (the      *)
(* function returns true: node1 is ranked first), "false" (it returns      *)
(* false) or "tie" (the code falls through to the next rung).              *)
(***************************************************************************)
Bool(b) == IF b THEN "true" ELSE "false"

\* a sufficiency rung that looks at the isolated capacity only
SufficiencyIsolatedOnly(cpuType, score1, score2) ==
    CASE cpuType = cpuNormal /\ score2.isolated < 0 /\ score1.isolated >= 0 -> "true"
      [] cpuType = cpuNormal /\ score1.isolated < 0 /\ score2.isolated >= 0 -> "false"
      [] cpuType = cpuReserved /\ score2.reserved < 0 /\ score1.reserved >= 0 -> "true"
      [] cpuType = cpuReserved /\ score1.reserved < 0 /\ score2.reserved >= 0 -> "false"
      [] OTHER -> "tie"

\* a node with insufficient isolated or shared capacity loses
SufficiencyRung(cpuType, score1, score2) ==
    LET isolated1 == score1.isolated  isolated2 == score2.isolated
        reserved1 == score1.reserved  reserved2 == score2.reserved
        shared1 == score1.shared      shared2 == score2.shared
    IN  CASE cpuType = cpuNormal
               /\ ((isolated2 < 0 /\ isolated1 >= 0) \/ (shared2 <= 0 /\ shared1 > 0))
               -> "true"
          [] cpuType = cpuNormal
               /\ ((isolated1 < 0 /\ isolated2 >= 0) \/ (shared1 <= 0 /\ shared2 > 0))
               -> "false"
          [] cpuType = cpuReserved /\ reserved2 < 0 /\ reserved1 >= 0 -> "true"
          [] cpuType = cpuReserved /\ reserved1 < 0 /\ reserved2 >= 0 -> "false"
          [] OTHER -> "tie"

\* higher affinity score wins
AffinityRung(a1, a2) ==
    IF a1 > a2 THEN "true" ELSE IF a2 > a1 THEN "false" ELSE "tie"

\* an offer rung that compares the sizes of the node masks only
OfferRungSizeOnly(req, o1, o2) ==
    CASE o1 # NoOffer /\ o2 = NoOffer -> "true"
      [] o1 = NoOffer /\ o2 # NoOffer -> "false"
      [] o1 = NoOffer /\ o2 = NoOffer -> "tie"
      [] OTHER ->
           IF Cardinality(o1[1]) < Cardinality(o2[1]) THEN "true"
           ELSE IF Cardinality(o2[1]) < Cardinality(o1[1]) THEN "false"
           ELSE "tie"

\* better matching or tighter memory offer wins
OfferRung(req, o1, o2) ==
    CASE o1 # NoOffer /\ o2 = NoOffer -> "true"
      [] o1 = NoOffer /\ o2 # NoOffer -> "false"
      [] o1 = NoOffer /\ o2 = NoOffer -> "tie"
      [] OTHER ->
           LET m1 == o1[1]  m2 == o2[1]
               t1 == memZoneType(m1)  t2 == memZoneType(m2)
               memType == TypeMask(req.memType)
           IN  IF t1 = memType /\ t2 # memType THEN "true"
               ELSE IF t1 # memType /\ t2 = memType THEN "false"
               ELSE IF Cardinality(m1) < Cardinality(m2) THEN "true"
               ELSE IF Cardinality(m2) < Cardinality(m1) THEN "false"
               ELSE "tie"

\* matching memory type wins
MemTypeRung(req, score1, score2) ==
    IF req.memType # memoryUnspec /\ req.memType # memoryPreserve
    THEN IF score1.hasMem /\ ~score2.hasMem THEN "true"
         ELSE IF ~score1.hasMem /\ score2.hasMem THEN "false"
         ELSE "tie"
    ELSE "tie"

\* a hint rung that breaks every tie of hint scores by depth and id
HintRungAlwaysBreaks(score1, score2, depth1, depth2, id1, id2) ==
    LET hs1 == combineHintScores(score1.hints)[1]
        hs2 == combineHintScores(score2.hints)[1]
        nz1 == combineHintScores(score1.hints)[2]
        nz2 == combineHintScores(score2.hints)[2]
    IN  IF Len(score1.hints) > 0
        THEN IF hs1 > hs2 THEN "true"
             ELSE IF hs2 > hs1 THEN "false"
             ELSE IF hs1 = 0 /\ nz1 > nz2 THEN "true"
             ELSE IF hs1 = 0 /\ nz2 > nz1 THEN "false"
             ELSE IF depth1 > depth2 THEN "true"
             ELSE IF depth1 < depth2 THEN "false"
             ELSE IF id1 < id2 THEN "true" ELSE "false"
        ELSE "tie"

\* better topology hint score wins
HintRung(score1, score2, depth1, depth2, id1, id2) ==
    LET hScores1 == score1.hints
        hScores2 == score2.hints
        hs1 == combineHintScores(hScores1)[1]
        nz1 == combineHintScores(hScores1)[2]
        hs2 == combineHintScores(hScores2)[1]
        nz2 == combineHintScores(hScores2)[2]
    IN  IF Len(hScores1) > 0
        THEN IF hs1 > hs2 THEN "true"
             ELSE IF hs2 > hs1 THEN "false"
             ELSE IF hs1 = 0 /\ nz1 > nz2 THEN "true"
             ELSE IF hs1 = 0 /\ nz2 > nz1 THEN "false"
             ELSE IF hs1 = hs2 /\ nz1 = nz2 /\ (hs1 # 0 \/ nz1 # 0)
                  THEN IF depth1 > depth2 THEN "true"
                       ELSE IF depth1 < depth2 THEN "false"
                       ELSE Bool(id1 < id2)
                  ELSE "tie"
        ELSE "tie"

\* for low-prio and high-prio CPU preference, the only fulfilling node wins;
\* score.prioCap is PrioCapacity(request.CPUPrio()), the only one ever read
PrioRung(req, score1, score2) ==
    LET c1 == score1.prioCap  c2 == score2.prioCap
    IN  IF req.prio \in {lowPrio, highPrio}
        THEN CASE c1 = c2 -> "tie"
               [] c1 >= 0 /\ c2 < 0 -> "true"
               [] c1 < 0 /\ c2 >= 0 -> "false"
               [] OTHER -> "tie"
        ELSE "tie"

\* a lower node wins
DepthRung(depth1, depth2) ==
    IF depth1 > depth2 THEN "true" ELSE IF depth1 < depth2 THEN "false" ELSE "tie"

\* the kind-specific remainder of the ladder
KindRung(req, score1, score2, id1, id2) ==
    LET isolated1 == score1.isolated  isolated2 == score2.isolated
        reserved1 == score1.reserved  reserved2 == score2.reserved
        shared1 == score1.shared      shared2 == score2.shared
        np1 == score1.prioCap         np2 == score2.prioCap
        r1 == GoDiv(reserved1, score1.colocated + 1)
        r2 == GoDiv(reserved2, score2.colocated + 1)
    IN  IF req.cpuType = cpuReserved
        THEN IF r1 > r2 THEN "true" ELSE IF r2 > r1 THEN "false" ELSE "tie"
        ELSE IF req.cpuType = cpuNormal
        THEN IF req.isolate /\ (isolated1 > 0 \/ isolated2 > 0)
             THEN IF isolated1 > isolated2 THEN "true"
                  ELSE IF isolated2 > isolated1 THEN "false"
                  ELSE Bool(id1 < id2)
             ELSE IF req.prio = normalPrio /\ np1 # np2 /\ np1 >= 0 /\ np2 < 0
             THEN "true"
             ELSE IF req.prio = normalPrio /\ np1 # np2 /\ np1 < 0 /\ np2 >= 0
             THEN "false"
             ELSE IF req.full > 0 /\ (shared1 > 0 \/ shared2 > 0)
             THEN IF shared1 > shared2 THEN "true"
                  ELSE IF shared2 > shared1 THEN "false"
                  ELSE Bool(id1 < id2)
             ELSE IF score1.colocated < score2.colocated THEN "true"
             ELSE IF score2.colocated < score1.colocated THEN "false"
             ELSE IF shared1 > shared2 THEN "true"
             ELSE IF shared2 > shared1 THEN "false"
             ELSE "tie"
        ELSE "tie"

\* Compare two pools by scores for allocation preference.
compareScores(req, pls, scs, affinities, i, j) ==
    LET node1 == pls[i]   node2 == pls[j]
        depth1 == RootDistance(node1)  depth2 == RootDistance(node2)
        id1 == node1      id2 == node2
        score1 == scs[id1]  score2 == scs[id2]
        a1 == affinityScore(affinities, node1)
        a2 == affinityScore(affinities, node2)
        r1 == SufficiencyRung(req.cpuType, score1, score2)
        r2 == AffinityRung(a1, a2)
        r3 == OfferRung(req, score1.offer, score2.offer)
        r4 == MemTypeRung(req, score1, score2)
        r5 == HintRung(score1, score2, depth1, depth2, id1, id2)
        r6 == PrioRung(req, score1, score2)
        r7 == DepthRung(depth1, depth2)
        r8 == KindRung(req, score1, score2, id1, id2)
    IN  IF r1 # "tie" THEN r1 = "true"
        ELSE IF r2 # "tie" THEN r2 = "true"
        ELSE IF r3 # "tie" THEN r3 = "true"
        ELSE IF r4 # "tie" THEN r4 = "true"
        ELSE IF r5 # "tie" THEN r5 = "true"
        ELSE IF r6 # "tie" THEN r6 = "true"
        ELSE IF r7 # "tie" THEN r7 = "true"
        ELSE IF r8 # "tie" THEN r8 = "true"
        ELSE id1 < id2

(***************************************************************************)
(* sortPoolsByScore: sort.Slice over a copy of p.pools.  For slices of at  *)
(* most 12 elements sort.Slice is an insertion sort:                       *)
(*   for i := 1; i < n; i++ { for j := i; j > 0 && less(j, j-1); j-- {     *)
(*       swap(j, j-1) } }                                                  *)
(***************************************************************************)
Swap(s, a, b) == [s EXCEPT ![a] = s[b], ![b] = s[a]]

RECURSIVE SinkDown(_, _, _, _, _)
SinkDown(req, scs, affinities, s, j) ==
    IF j > 1 /\ compareScores(req, s, scs, affinities, j, j - 1)
    THEN SinkDown(req, scs, affinities, Swap(s, j, j - 1), j - 1)
    ELSE s

RECURSIVE InsertionSort(_, _, _, _, _)
InsertionSort(req, scs, affinities, s, i) ==
    IF i > Len(s) THEN s
    ELSE InsertionSort(req, scs, affinities, SinkDown(req, scs, affinities, s, i), i + 1)

sortPoolsByScore(req, scs, affinities) ==
    InsertionSort(req, scs, affinities, pools, 2)

(***************************************************************************)
(* Comparator inputs: bounded domains.  The request, the scores and the    *)
(* affinities start at a baseline on which all pools tie; every            *)
(* step replaces one input by another value of its domain.  Inputs are     *)
(* replaced in a fixed slot order and at most MaxDev of them differ from   *)
(* the baseline, so every combination of at most MaxDev deviations is      *)
(* generated exactly once.                                                 *)
(***************************************************************************)
MaxDev == 3

ReqFields == <<"cpuType", "prio", "isolate", "full", "memType">>

ScoreFields == <<"isolated", "reserved", "shared", "colocated", "offer",
                 "hasMem", "hints", "prioCap">>

BaseRequest ==
    [cpuType |-> cpuNormal, prio |-> normalPrio, isolate |-> FALSE,
     full |-> 0, memType |-> memoryUnspec]

BaseScore ==
    [isolated |-> 0, reserved |-> 0, shared |-> 1, colocated |-> 0,
     offer |-> <<{0}>>, hasMem |-> TRUE, hints |-> <<>>, prioCap |-> 0]

ReqDom(f) ==
    CASE f = "cpuType" -> {cpuNormal, cpuReserved, cpuPreserve}
      [] f = "prio" -> {lowPrio, normalPrio, highPrio}
      [] f = "isolate" -> BOOLEAN
      [] f = "full" -> {0, 1}
      [] f = "memType" -> {memoryUnspec, memoryDRAM, memoryPreserve}

ScoreDom(f) ==
    CASE f = "isolated" -> {-1, 0, 1}
      [] f = "reserved" -> {-1, 0, 2}
      [] f = "shared" -> {0, 1, 2}
      [] f = "colocated" -> {0, 1}
      [] f = "offer" -> {NoOffer, <<{0}>>, <<{0, 1}>>, <<{0, 2}>>}
      [] f = "hasMem" -> BOOLEAN
      [] f = "hints" -> HintMaps
      [] f = "prioCap" -> {-1, 0, 1}

AffinityDom == {-1, 0, 1}

NReq == Len(ReqFields)
NScore == Len(ScoreFields)

ScoreSlot(n, k) == NReq + n * (NScore + 1) + k
AffinitySlot(n) == ScoreSlot(n, NScore + 1)

MayDeviate(k) == slot[2] < MaxDev /\ slot[1] < k

(***************************************************************************)
(* The allocator's system: containers, CPUs and the policy options.        *)
(*   pool 0  "socket #0"     (root)    CPUs 0..3, memory nodes {0, 1}      *)
(*   pool 1  "NUMA node #0"  (leaf)    CPUs 0, 1, memory node 0            *)
(*   pool 2  "NUMA node #1"  (leaf)    CPUs 2, 3, memory node 1            *)
(* CPU 3 is kernel-isolated; CPU 0 is the reserved CPU when the policy is  *)
(* configured with reserved CPUs.  CPUs (1,2) are hyperthread siblings.    *)
(***************************************************************************)
Containers == {"c1", "c2"}

Unknown == "c9"               \* a container id the allocations table never holds

NumaCPUs(id) == IF id = 0 THEN {0, 1} ELSE {2, 3}

\* NUMA node ids assigned to each pool by buildPoolsByTopology
AssignedNuma(n) == IF n = 0 THEN {} ELSE {n - 1}

\* memory nodes and CPUs of the subtree of pool n (the transitive view)
PoolMems(n) == UNION {AssignedNuma(x) : x \in Subtree(n)}
PoolCPUs(n) == UNION {NumaCPUs(id) : id \in PoolMems(n)}

Name(n) ==
    CASE n = 0 -> "socket #0"
      [] n = 1 -> "NUMA node #0"
      [] n = 2 -> "NUMA node #1"

AllCPUs == PoolCPUs(0)
IsolatedAll == {3}
ReservedChoices == {{}, {0}}

\* p.sys.SingleThreadForCPUs: one logical CPU (the lowest) per physical core
CoreOf(cpu) == IF cpu \in {1, 2} THEN 1 ELSE cpu
SingleThreadForCPUs(set) ==
    {c \in set : \A d \in set : CoreOf(d) = CoreOf(c) => c <= d}

\* cpuset.String() / MemsetString(): the ascending list of the members
RECURSIVE SortedMembers(_)
SortedMembers(S) ==
    IF S = {} THEN <<>>
    ELSE LET m == CHOOSE x \in S : \A y \in S : x <= y
         IN  <<m>> \o SortedMembers(S \ {m})

\* cpuset.Parse: the set a cpuset string denotes
ParseSet(str) == {str[k] : k \in 1..Len(str)}

\* cache.MilliCPUToShares
MilliCPUToShares(milliCPU) ==
    IF milliCPU = 0 THEN 2
    ELSE LET s == (milliCPU * 1024) \div 1000
         IN  IF s < 2 THEN 2 ELSE s

\* the requests containers carry (newRequest): kind, whole CPUs, fraction
Requests ==
    {[cpuType |-> cpuNormal, prio |-> normalPrio, isolate |-> FALSE,
      full |-> 0, fraction |-> 500, memType |-> memoryUnspec],
     [cpuType |-> cpuNormal, prio |-> normalPrio, isolate |-> FALSE,
      full |-> 1, fraction |-> 0, memType |-> memoryUnspec],
     [cpuType |-> cpuNormal, prio |-> normalPrio, isolate |-> TRUE,
      full |-> 1, fraction |-> 0, memType |-> memoryUnspec],
     [cpuType |-> cpuNormal, prio |-> normalPrio, isolate |-> FALSE,
      full |-> 1, fraction |-> 500, memType |-> memoryUnspec],
     [cpuType |-> cpuNormal, prio |-> normalPrio, isolate |-> FALSE,
      full |-> 0, fraction |-> 500, memType |-> memoryPreserve],
     [cpuType |-> cpuReserved, prio |-> normalPrio, isolate |-> FALSE,
      full |-> 0, fraction |-> 500, memType |-> memoryUnspec],
     [cpuType |-> cpuPreserve, prio |-> normalPrio, isolate |-> FALSE,
      full |-> 0, fraction |-> 500, memType |-> memoryUnspec]}

PoolHints == {"", "NUMA node #1", "no such pool"}

NoGrant == [none |-> TRUE]

\* how many admits and releases that change the allocations a behaviour has
MaxCalls == 3
(***************************************************************************)
(* Supply: the free resources of the pools.  The free isolated and         *)
(* sharable CPUs are kept system-wide; a pool's supply is the part of them *)
(* that lies in its subtree.  Shared millicpu granted in a pool is         *)
(* accounted in the pool, its ancestors and its descendants.               *)
(***************************************************************************)
IsolatedCPUs(n) == freeIsolated \cap PoolCPUs(n)
SharableCPUs(n) == freeSharable \cap PoolCPUs(n)
ReservedCPUs(n) == sysReserved \cap PoolCPUs(n)

AllocatableSharedCPU(n) == 1000 * Cardinality(SharableCPUs(n)) - grantedShared[n]
AllocatableReservedCPU(n) == 1000 * Cardinality(ReservedCPUs(n)) - grantedReserved

\* the pools whose shared capacity a grant in pool n uses up
AccountedPools(n) == Subtree(n) \cup Ancestors(n)

\* FreeSupply() of every pool: the CPU sets claims speak about
Supplies ==
    [n \in Pools |-> [isolated |-> IsolatedCPUs(n),
                      reserved |-> ReservedCPUs(n),
                      sharable |-> SharableCPUs(n)]]

GrantedIDs == {c \in Containers : grants[c] # NoGrant}

\* getMemOffer: an offer over the memory nodes of the pool, or nil when the
\* memory allocator cannot make one (the pools in `failing`)
getMemOffer(pool, failing) ==
    IF pool \in failing THEN NoOffer ELSE <<PoolMems(pool)>>

\* does an isolated allocation of the request fit pool n ?
TakesIsolated(n, req) ==
    req.isolate /\ req.full > 0 /\ Cardinality(IsolatedCPUs(n)) >= req.full

\* Node.GetScore(request)
GetScore(n, req, failing) ==
    [isolated |-> IF TakesIsolated(n, req)
                  THEN Cardinality(IsolatedCPUs(n)) - req.full
                  ELSE Cardinality(IsolatedCPUs(n)),
     reserved |-> AllocatableReservedCPU(n)
                  - (IF req.cpuType = cpuReserved
                     THEN 1000 * req.full + req.fraction ELSE 0),
     shared |-> AllocatableSharedCPU(n)
                - (IF TakesIsolated(n, req) THEN req.fraction
                   ELSE 1000 * req.full + req.fraction),
     colocated |-> Cardinality({c \in GrantedIDs : grants[c].pool = n}),
     offer |-> getMemOffer(n, failing),
     hasMem |-> TRUE,
     hints |-> <<>>,
     prioCap |-> 0]

NewGrant(c, n, req, exclusive, offer) ==
    [container |-> c, pool |-> n, cpuType |-> req.cpuType,
     memType |-> req.memType,
     exclusive |-> exclusive,
     reserved |-> IF req.cpuType = cpuReserved THEN ReservedCPUs(n) ELSE {},
     portion |-> IF req.cpuType = cpuNormal THEN req.fraction ELSE 0,
     reservedPortion |-> IF req.cpuType = cpuReserved
                         THEN 1000 * req.full + req.fraction ELSE 0,
     memZone |-> offer[1]]

\* Supply.Allocate(request, offer): the grants the allocation may return;
\* the empty set when a component is short (the call fails, nothing is taken)
Allocate(c, n, req, offer) ==
    CASE req.cpuType = cpuPreserve -> {NewGrant(c, n, req, {}, offer)}
      [] req.cpuType = cpuReserved ->
           IF AllocatableReservedCPU(n) >= 1000 * req.full + req.fraction
           THEN {NewGrant(c, n, req, {}, offer)}
           ELSE {}
      [] OTHER ->
           LET from == IF TakesIsolated(n, req) THEN IsolatedCPUs(n)
                       ELSE SharableCPUs(n)
               need == IF TakesIsolated(n, req) THEN req.fraction
                       ELSE 1000 * req.full + req.fraction
           IN  IF Cardinality(from) >= req.full /\ AllocatableSharedCPU(n) >= need
               THEN {NewGrant(c, n, req, ex, offer) :
                        ex \in {s \in SUBSET from : Cardinality(s) = req.full}}
               ELSE {}

\* the supply after the CPUs of grant g are taken
AccountAllocate(g) ==
    /\ freeIsolated' = freeIsolated \ g.exclusive
    /\ freeSharable' = freeSharable \ g.exclusive
    /\ grantedShared' = [n \in Pools |->
           IF n \in AccountedPools(g.pool)
           THEN grantedShared[n] + g.portion ELSE grantedShared[n]]
    /\ grantedReserved' = grantedReserved + g.reservedPortion

\* Grant.Release(): the supply after the CPUs of grant g are returned
AccountRelease(g) ==
    /\ freeIsolated' = freeIsolated \cup (g.exclusive \cap IsolatedAll)
    /\ freeSharable' = freeSharable \cup (g.exclusive \ IsolatedAll)
    /\ grantedShared' = [n \in Pools |->
           IF n \in AccountedPools(g.pool)
           THEN grantedShared[n] - g.portion ELSE grantedShared[n]]
    /\ grantedReserved' = grantedReserved - g.reservedPortion
(***************************************************************************)
(* allocatePool                                                            *)
(***************************************************************************)
\* calculatePoolAffinities: an error, or the affinity weight of every pool
AffinityResults ==
    {[err |-> TRUE, weights |-> [n \in Pools |-> 0]],
     [err |-> FALSE, weights |-> [n \in Pools |-> 0]],
     [err |-> FALSE, weights |-> [n \in Pools |-> IF n = 2 THEN 1 ELSE 0]]}

\* the pools the memory allocator has no offer for
FailingOffers == {{}, {0}, {2}}

\* the container whose zone the offer commit moves ("" for none)
ZoneUpdates == {""} \cup Containers \cup {Unknown}

\* the zone a zone update moves a container to
UpdatedZone == PoolMems(0)

\* What the collaborators answer while allocatePool picks the pool: the
\* pool hint of the caller, the pools without a memory offer and the
\* affinities.  At most one of them departs from the plain case, except
\* that a hinted pool may also lack its offer.
PlainEnv ==
    [poolHint |-> "", failing |-> {},
     aff |-> [err |-> FALSE, weights |-> [n \in Pools |-> 0]]]

Environments ==
    {[PlainEnv EXCEPT !.poolHint = h] : h \in PoolHints}
    \cup {[PlainEnv EXCEPT !.failing = f] : f \in FailingOffers}
    \cup {[PlainEnv EXCEPT !.aff = a] : a \in AffinityResults}
    \cup {[PlainEnv EXCEPT !.poolHint = "NUMA node #1", !.failing = {2}]}

\* the zone updates the offer commit may return in an environment
CommitUpdates(env) == IF env = PlainEnv THEN ZoneUpdates ELSE {""}

\* a lookup that never finds the hinted pool
HintIgnored(pls, poolHint) == 0

\* index of the hinted pool in the sorted list, 0 if there is none
HintedIndex(pls, poolHint) ==
    IF poolHint # "" /\ \E k \in 1..Len(pls) : Name(pls[k]) = poolHint
    THEN CHOOSE k \in 1..Len(pls) :
             /\ Name(pls[k]) = poolHint
             /\ \A l \in 1..Len(pls) : Name(pls[l]) = poolHint => k <= l
    ELSE 0

\* the result of allocatePool before supply.Allocate is called: the request
\* as adjusted, the pool picked and its offer, or the error returned
Picked(err, rq, pool, offer) ==
    [err |-> err, request |-> rq, pool |-> pool, offer |-> offer]

\* scores[n.NodeID()] = n.GetScore(req) for every pool
Scores(rq, failing) == [n \in Pools |-> GetScore(n, rq, failing)]

\* allocatePool, from the sorted pools to the offer of the pool picked
PickSorted(rq, pls, scs, poolHint) ==
    LET idx == HintedIndex(pls, poolHint)
        pool == IF idx # 0 THEN pls[idx] ELSE pls[1]
        o == scs[pool].offer
    IN  IF Len(pls) = 0 THEN Picked("no suitable pool", rq, Nil, NoOffer)
        ELSE IF o = NoOffer THEN Picked("failed to get offer", rq, pool, NoOffer)
        ELSE Picked("", rq, pool, o)

\* allocatePool for a request satisfied by the comparator
PickScored(rq, scs, poolHint, aff) ==
    IF aff.err THEN Picked("failed to calculate affinity", rq, Nil, NoOffer)
    ELSE PickSorted(rq, sortPoolsByScore(rq, scs, aff.weights), scs, poolHint)

\* allocatePool for a request satisfied from the root
PickRoot(rq, root, o) ==
    IF o = NoOffer THEN Picked("failed to get offer", rq, root, NoOffer)
    ELSE Picked("", rq, root, o)

\* an allocatePool that has the comparator pick the pool for every request
PickPoolAlwaysScored(req, poolHint, failing, aff) ==
    LET root == pools[1]
        rq == IF ReservedCPUs(root) = {} /\ req.cpuType = cpuReserved
              THEN [req EXCEPT !.cpuType = cpuNormal] ELSE req
    IN  PickScored(rq, Scores(rq, failing), poolHint, aff)

\* an allocatePool that sends a reserved request to the root whether or not
\* the root has reserved CPUs
PickPoolNoFallback(req, poolHint, failing, aff) ==
    LET root == pools[1]
    IN  IF req.cpuType = cpuReserved \/ req.cpuType = cpuPreserve
        THEN PickRoot(req, root, getMemOffer(root, failing))
        ELSE PickScored(req, Scores(req, failing), poolHint, aff)

\* allocatePool up to the call of supply.Allocate
PickPool(req, poolHint, failing, aff) ==
    LET root == pools[1]
        rq == IF ReservedCPUs(root) = {} /\ req.cpuType = cpuReserved
              THEN [req EXCEPT !.cpuType = cpuNormal] ELSE req
    IN  IF rq.cpuType = cpuReserved \/ rq.cpuType = cpuPreserve
        THEN PickRoot(rq, root, getMemOffer(root, failing))
        ELSE PickScored(rq, Scores(rq, failing), poolHint, aff)

NoSnap == [none |-> TRUE]

\* no call has been made, or its result has been handed back
NoCall ==
    [op |-> "", container |-> "", ok |-> TRUE, err |-> "", saved |-> FALSE,
     pre |-> NoSnap, after |-> ""]

\* what a failed admit must leave alone
Snapshot ==
    [grants |-> grants, supplies |-> Supplies, grantedShared |-> grantedShared,
     grantedReserved |-> grantedReserved, mems |-> cpusetMems]

\* what admit followed by release must restore
RoundTripSnapshot(c) ==
    [container |-> c, supplies |-> Supplies, ids |-> GrantedIDs]

\* an error return that has already dropped the container's grant
AllocateErrorDropsGrant(c, err) ==
    /\ last' = [op |-> "allocatePool", container |-> c, ok |-> FALSE,
                err |-> err, saved |-> FALSE, pre |-> Snapshot, after |-> ""]
    /\ snap' = NoSnap
    /\ pc' = "done"
    /\ grants' = [grants EXCEPT ![c] = NoGrant]
    /\ UNCHANGED <<saved, freeIsolated, freeSharable, grantedShared,
                   grantedReserved, cpusetCpus, cpusetMems, cpuShares,
                   trigger, calls>>

\* allocatePool returns an error: nothing is touched
AllocateError(c, err) ==
    /\ last' = [op |-> "allocatePool", container |-> c, ok |-> FALSE,
                err |-> err, saved |-> FALSE, pre |-> Snapshot, after |-> ""]
    /\ snap' = NoSnap
    /\ pc' = "done"
    /\ UNCHANGED <<grants, saved, freeIsolated, freeSharable, grantedShared,
                   grantedReserved, cpusetCpus, cpusetMems, cpuShares,
                   trigger, calls>>

\* zone updates that are dropped instead of applied to the grants
UpdatesDropped(upd) == grants

\* the zone updates of the offer commit, applied to the allocations table
UpdatedGrants(upd) ==
    IF upd \in Containers /\ grants[upd] # NoGrant
    THEN [grants EXCEPT ![upd].memZone = UpdatedZone]
    ELSE grants

UpdatedMems(upd) ==
    IF upd \in Containers /\ grants[upd] # NoGrant /\ opt.PinMemory
    THEN [cpusetMems EXCEPT ![upd] = SortedMembers(UpdatedZone)]
    ELSE cpusetMems

\* a successful allocatePool that returns the grant without having put it
\* into the allocations table
AllocateCommitNoInsert(c, g, upd) ==
    /\ calls' = calls + 1
    /\ AccountAllocate(g)
    /\ grants' = UpdatedGrants(upd)
    /\ cpusetMems' = UpdatedMems(upd)
    /\ saved' = grants'
    /\ last' = [op |-> "allocatePool", container |-> c, ok |-> TRUE,
                err |-> "", saved |-> TRUE, pre |-> NoSnap, after |-> ""]
    /\ snap' = IF grants[c] = NoGrant THEN RoundTripSnapshot(c) ELSE NoSnap
    /\ pc' = "apply"
    /\ trigger' = g
    /\ UNCHANGED <<cpusetCpus, cpuShares>>

\* allocatePool succeeds with grant g: zone updates, table insert, save
AllocateCommit(c, g, upd) ==
    /\ calls' = calls + 1
    /\ AccountAllocate(g)
    /\ grants' = [UpdatedGrants(upd) EXCEPT ![c] = g]
    /\ cpusetMems' = UpdatedMems(upd)
    /\ saved' = grants'
    /\ last' = [op |-> "allocatePool", container |-> c, ok |-> TRUE,
                err |-> "", saved |-> TRUE, pre |-> NoSnap, after |-> ""]
    /\ snap' = IF grants[c] = NoGrant THEN RoundTripSnapshot(c) ELSE NoSnap
    /\ pc' = "apply"
    /\ trigger' = g
    /\ UNCHANGED <<cpusetCpus, cpuShares>>

\* no allocatePool call has just returned
NoPick == [none |-> TRUE]

\* the arguments of an allocatePool call (the request of the container, the
\* pool hint, what the collaborators answered, the zone update of the offer
\* commit) and the pool and offer it went to supply.Allocate with
Pick(req, env, r, upd) ==
    [req |-> req, env |-> env, request |-> r.request, pool |-> r.pool,
     offer |-> r.offer, upd |-> upd]

AllocatePool ==
    /\ pc = "idle"
    /\ calls < MaxCalls
    /\ \E req \in Requests : \E env \in Environments :
       \E r \in {PickPool(req, env.poolHint, env.failing, env.aff)} :
       \E c \in Containers :
          \/ /\ r.err # ""
             /\ AllocateError(c, r.err)
             /\ pick' = Pick(req, env, r, "")
          \/ /\ r.err = ""
             /\ Allocate(c, r.pool, r.request, r.offer) = {}
             /\ AllocateError(c, "failed to allocate")
             /\ pick' = Pick(req, env, r, "")
          \/ /\ r.err = ""
             /\ \E g \in Allocate(c, r.pool, r.request, r.offer) :
                \E upd \in CommitUpdates(env) :
                   /\ AllocateCommit(c, g, upd)
                   /\ pick' = Pick(req, env, r, upd)
    /\ UNCHANGED <<cmpVars, topoVars, metricsVars, opt, sysReserved, hideHT>>

(***************************************************************************)
(* applyGrant / setPreferredCpusetCpus                                     *)
(***************************************************************************)
\* the cpuset string setPreferredCpusetCpus writes for container c
setPreferredCpusetCpus(c, allocated) ==
    LET allow == IF c \in hideHT THEN SingleThreadForCPUs(allocated)
                 ELSE allocated
    IN  SortedMembers(allow)

\* a CPU selection that pins a mixed grant to its exclusive CPUs only
GrantCpusExclusiveOnly(g) ==
    CASE g.cpuType = cpuNormal ->
           IF g.exclusive = {} THEN SharableCPUs(g.pool) ELSE g.exclusive
      [] g.cpuType = cpuReserved -> g.reserved
      [] OTHER -> {}

\* the CPUs applyGrant pins a grant to
GrantCpus(g) ==
    CASE g.cpuType = cpuNormal ->
           IF g.exclusive = {} THEN SharableCPUs(g.pool)
           ELSE IF g.portion > 0 THEN g.exclusive \cup SharableCPUs(g.pool)
           ELSE g.exclusive
      [] g.cpuType = cpuReserved -> g.reserved
      [] OTHER -> {}

\* a test that leaves the memory pinning alone for grants of CPU kind preserve
PreservesMemsByCpuKind(g) == g.cpuType = cpuPreserve

\* does applyGrant leave the memory pinning of the container alone ?
PreservesMems(g) == g.memType = memoryPreserve

ApplyGrant ==
    /\ pc = "apply"
    /\ LET g == trigger
           c == g.container
           cpus == GrantCpus(g)
           cpuPortion == IF g.cpuType = cpuReserved THEN g.reservedPortion
                         ELSE g.portion
           mems == IF opt.PinMemory THEN g.memZone ELSE {}
           milliCPU == IF cpuPortion = 0 THEN 1000 * Cardinality(g.exclusive)
                       ELSE cpuPortion
       IN  /\ cpusetCpus' =
                 IF opt.PinCPU /\ g.cpuType # cpuPreserve
                 THEN [cpusetCpus EXCEPT ![c] =
                          IF Cardinality(cpus) > 0
                          THEN setPreferredCpusetCpus(c, cpus) ELSE <<>>]
                 ELSE cpusetCpus
           /\ cpuShares' =
                 IF opt.PinCPU
                 THEN [cpuShares EXCEPT ![c] = MilliCPUToShares(milliCPU)]
                 ELSE cpuShares
           /\ cpusetMems' =
                 IF PreservesMems(g) THEN cpusetMems
                 ELSE [cpusetMems EXCEPT ![c] = SortedMembers(mems)]
           /\ last' = [op |-> "applyGrant", container |-> c, ok |-> TRUE,
                       err |-> "", saved |-> FALSE, pre |-> NoSnap,
                       after |-> last.op]
    /\ pc' = "update"
    /\ pick' = NoPick
    /\ UNCHANGED <<grants, saved, freeIsolated, freeSharable, grantedShared,
                   grantedReserved, trigger, snap>>
    /\ UNCHANGED <<cmpVars, topoVars, metricsVars, opt, sysReserved, hideHT, calls>>

(***************************************************************************)
(* releasePool                                                             *)
(***************************************************************************)
\* releasePool finds no grant: nothing to do
ReleaseNothing(c) ==
    /\ last' = [op |-> "releasePool", container |-> c, ok |-> FALSE,
                err |-> "", saved |-> FALSE, pre |-> NoSnap, after |-> ""]
    /\ snap' = NoSnap
    /\ pc' = "done"
    /\ UNCHANGED <<grants, saved, freeIsolated, freeSharable, grantedShared,
                   grantedReserved, trigger, calls>>

\* a release that returns the CPUs but leaves the grant in the table
ReleaseKeepsGrant(c) ==
    /\ AccountRelease(grants[c])
    /\ saved' = grants
    /\ last' = [op |-> "releasePool", container |-> c, ok |-> TRUE,
                err |-> "", saved |-> TRUE, pre |-> NoSnap, after |-> ""]
    /\ snap' = NoSnap
    /\ pc' = "update"
    /\ trigger' = grants[c]
    /\ calls' = calls + 1
    /\ UNCHANGED grants

\* a release that drops the grant without returning its CPUs
ReleaseKeepsSupply(c) ==
    /\ grants' = [grants EXCEPT ![c] = NoGrant]
    /\ saved' = grants'
    /\ last' = [op |-> "releasePool", container |-> c, ok |-> TRUE,
                err |-> "", saved |-> TRUE,
                pre |-> IF snap # NoSnap /\ snap.container = c
                        THEN snap ELSE NoSnap,
                after |-> ""]
    /\ snap' = NoSnap
    /\ pc' = "update"
    /\ trigger' = grants[c]
    /\ calls' = calls + 1
    /\ UNCHANGED <<freeIsolated, freeSharable, grantedShared, grantedReserved>>

\* a release that empties the allocations table
ReleaseDropsAll(c) ==
    /\ AccountRelease(grants[c])
    /\ grants' = [d \in Containers |-> NoGrant]
    /\ saved' = grants'
    /\ last' = [op |-> "releasePool", container |-> c, ok |-> TRUE,
                err |-> "", saved |-> TRUE,
                pre |-> IF snap # NoSnap /\ snap.container = c
                        THEN snap ELSE NoSnap,
                after |-> ""]
    /\ snap' = NoSnap
    /\ pc' = "update"
    /\ trigger' = grants[c]
    /\ calls' = calls + 1

\* releasePool finds the grant: release it, delete it, save
ReleaseGranted(c) ==
    /\ AccountRelease(grants[c])
    /\ grants' = [grants EXCEPT ![c] = NoGrant]
    /\ saved' = grants'
    /\ last' = [op |-> "releasePool", container |-> c, ok |-> TRUE,
                err |-> "", saved |-> TRUE,
                pre |-> IF snap # NoSnap /\ snap.container = c
                        THEN snap ELSE NoSnap,
                after |-> ""]
    /\ snap' = NoSnap
    /\ pc' = "update"
    /\ trigger' = grants[c]
    /\ calls' = calls + 1

ReleasePool ==
    /\ pc = "idle"
    /\ calls < MaxCalls
    /\ \E c \in Containers :
          IF grants[c] = NoGrant THEN ReleaseNothing(c) ELSE ReleaseGranted(c)
    /\ pick' = NoPick
    /\ UNCHANGED <<cpusetCpus, cpusetMems, cpuShares>>
    /\ UNCHANGED <<cmpVars, topoVars, metricsVars, opt, sysReserved, hideHT>>

(***************************************************************************)
(* updateSharedAllocations                                                 *)
(***************************************************************************)
\* is grant `other` re-pinned when the shared allocations are updated for
\* the trigger grant (NoGrant: all shared allocations are updated) ?
AffectedUnlessExclusive(other, trig) ==
    /\ ~(trig # NoGrant /\ trig.cpuType = cpuReserved)
    /\ ~(trig # NoGrant /\ other.container = trig.container)
    /\ ~(trig # NoGrant /\ trig.exclusive # {})
    /\ other.cpuType # cpuReserved
    /\ other.cpuType # cpuPreserve
    /\ ~(other.portion = 0 /\ other.exclusive # {})

\* a test that does not skip the grants with exclusive CPUs only
AffectedWithExclusiveOnly(other, trig) ==
    /\ ~(trig # NoGrant /\ trig.cpuType = cpuReserved)
    /\ ~(trig # NoGrant /\ other.container = trig.container)
    /\ other.cpuType # cpuReserved
    /\ other.cpuType # cpuPreserve

Affected(other, trig) ==
    /\ ~(trig # NoGrant /\ trig.cpuType = cpuReserved)
    /\ ~(trig # NoGrant /\ other.container = trig.container)
    /\ other.cpuType # cpuReserved
    /\ other.cpuType # cpuPreserve
    /\ ~(other.portion = 0 /\ other.exclusive # {})

\* the cpuset string an affected grant is re-pinned to
UpdatedCpuset(other) ==
    LET shared == SharableCPUs(other.pool)
    IN  IF other.exclusive = {}
        THEN setPreferredCpusetCpus(other.container, shared)
        ELSE setPreferredCpusetCpus(other.container, other.exclusive \cup shared)

updateSharedAllocations(trig) ==
    /\ cpusetCpus' = [c \in Containers |->
           IF grants[c] # NoGrant /\ Affected(grants[c], trig) /\ opt.PinCPU
           THEN UpdatedCpuset(grants[c]) ELSE cpusetCpus[c]]
    /\ last' = [op |-> "updateSharedAllocations",
                container |-> IF trig = NoGrant THEN "" ELSE trig.container,
                ok |-> TRUE, err |-> "", saved |-> FALSE, pre |-> NoSnap,
                after |-> IF pc = "idle" THEN ""
                          ELSE IF last.op = "applyGrant" THEN "allocatePool"
                          ELSE last.op]

UpdateSharedAllocations ==
    /\ pc \in {"update", "idle"}
    /\ pc = "idle" => calls < MaxCalls
    /\ updateSharedAllocations(IF pc = "update" THEN trigger ELSE NoGrant)
    /\ pc' = "done"
    /\ pick' = NoPick
    /\ UNCHANGED <<grants, saved, freeIsolated, freeSharable, grantedShared,
                   grantedReserved, cpusetMems, cpuShares, trigger, snap>>
    /\ UNCHANGED <<cmpVars, topoVars, metricsVars, opt, sysReserved, hideHT, calls>>

(***************************************************************************)
(* The event loop of the caller: the result of the call is handed back and  *)
(* the next admit, release or update event may be served.                   *)
(***************************************************************************)
Return ==
    /\ pc = "done"
    /\ pc' = "idle"
    /\ last' = NoCall
    /\ trigger' = NoGrant
    /\ pick' = NoPick
    /\ IF last.after = "releasePool"
       THEN \* the released container is gone: its cache entry with it
            /\ cpusetCpus' = [cpusetCpus EXCEPT ![last.container] = <<>>]
            /\ cpusetMems' = [cpusetMems EXCEPT ![last.container] = <<>>]
            /\ cpuShares' = [cpuShares EXCEPT ![last.container] = 0]
       ELSE UNCHANGED <<cpusetCpus, cpusetMems, cpuShares>>
    /\ UNCHANGED <<grants, saved, freeIsolated, freeSharable, grantedShared,
                   grantedReserved, snap>>
    /\ UNCHANGED <<cmpVars, topoVars, metricsVars, opt, sysReserved, hideHT, calls>>

(***************************************************************************)
(* The hardware snapshot (p.sys).  NUMA nodes 0 .. NumaCount-1 lie in       *)
(* packages 0 and 1, package 0 with dies 0 and 1.  The baseline is one      *)
(* package with one die holding every node, all of them DRAM nodes with     *)
(* CPUs, at distance 10 from themselves and 20 from each other.             *)
(***************************************************************************)
NumaCount == 4
MaxHwDev == 4

Nodes == 0 .. NumaCount - 1

MemoryTypeDRAM == "DRAM"
MemoryTypePMEM == "PMEM"
MemoryTypeHBM == "HBM"
MemoryTypeOther == "other"

LocalDistance == 10
NearDistance == 20
FarDistance == 30

HwFields == <<"place", "memType", "cpus", "alsoDie", "alsoPkg">>

\* the values of a snapshot field: where the node lies (package, die), its
\* memory type, whether it has CPUs, whether the other die of its package
\* and whether the other package list it as well
HwDom(f) ==
    CASE f = "place" -> {<<0, 0>>, <<0, 1>>, <<1, 0>>}
      [] f = "memType" -> {MemoryTypeDRAM, MemoryTypePMEM, MemoryTypeHBM,
                           MemoryTypeOther}
      [] f = "cpus" -> BOOLEAN
      [] f = "alsoDie" -> BOOLEAN
      [] f = "alsoPkg" -> BOOLEAN

BaseHw ==
    [place |-> [n \in Nodes |-> <<0, 0>>],
     memType |-> [n \in Nodes |-> MemoryTypeDRAM],
     cpus |-> [n \in Nodes |-> TRUE],
     alsoDie |-> [n \in Nodes |-> FALSE],
     alsoPkg |-> [n \in Nodes |-> FALSE],
     dist |-> [e \in Nodes \X Nodes |->
                 IF e[1] = e[2] THEN LocalDistance ELSE NearDistance]]

NHw == Len(HwFields)
NodeSlot(n, k) == n * NHw + k
PairSlot(a, b) == NumaCount * NHw + a * NumaCount + b
HwMayDeviate(k) == hwSlot[2] < MaxHwDev /\ hwSlot[1] < k

\* Node(id).PackageID(), Node(id).DieID(), Node(id).CPUSet().IsEmpty(),
\* Node(id).GetMemoryType(), NodeDistance(from, to)
PackageID(n) == hw.place[n][1]
DieID(n) == hw.place[n][2]
HasCPUs(n) == hw.cpus[n]
GetMemoryType(n) == hw.memType[n]
NodeDistance(from, to) == hw.dist[<<from, to>>]

\* PackageIDs(), Package(p).NodeIDs(), Package(p).DieNodeIDs(d),
\* Package(p).DieIDs(), SocketCount()
PackageIDs ==
    {PackageID(n) : n \in Nodes}
    \cup {1 - PackageID(n) : n \in {m \in Nodes : hw.alsoPkg[m]}}

PackageNodeIDs(p) == {n \in Nodes : PackageID(n) = p \/ hw.alsoPkg[n]}

DieNodeIDs(p, d) ==
    {n \in Nodes :
        \/ PackageID(n) = p /\ (DieID(n) = d \/ hw.alsoDie[n])
        \/ PackageID(n) # p /\ hw.alsoPkg[n] /\ d = 0}

DieIDs(p) == {d \in {0, 1} : DieNodeIDs(p, d) # {}}

SocketCount == Cardinality(PackageIDs)

DramNodes == {n \in Nodes : GetMemoryType(n) = MemoryTypeDRAM}
PmemNodes == {n \in Nodes : GetMemoryType(n) = MemoryTypePMEM}
HbmNodes == {n \in Nodes : GetMemoryType(n) = MemoryTypeHBM}

(***************************************************************************)
(* checkHWTopology                                                         *)
(***************************************************************************)
SocketsShareNode ==
    \E id1 \in PackageIDs : \E id2 \in PackageIDs \ {id1} :
        PackageNodeIDs(id1) \cap PackageNodeIDs(id2) # {}

DiesShareNode ==
    \E p \in PackageIDs : \E id1 \in DieIDs(p) : \E id2 \in DieIDs(p) \ {id1} :
        DieNodeIDs(p, id1) \cap DieNodeIDs(p, id2) # {}

AsymmetricDistance ==
    \E from \in Nodes : \E to \in Nodes :
        NodeDistance(from, to) # NodeDistance(to, from)

\* the pair (omitDies, err) checkHWTopology returns
checkHWTopology ==
    IF SocketsShareNode THEN [omitDies |-> FALSE, err |-> TRUE]
    ELSE IF DiesShareNode THEN [omitDies |-> TRUE, err |-> FALSE]
    ELSE IF AsymmetricDistance THEN [omitDies |-> FALSE, err |-> TRUE]
    ELSE [omitDies |-> FALSE, err |-> FALSE]

(***************************************************************************)
(* buildPoolsByTopology: the pool nodes                                    *)
(***************************************************************************)
nilnode == <<>>
VirtualNode == <<"root">>
SocketNode(p) == <<"socket", p>>
DieNode(p, d) == <<"die", p, d>>
NumaNode(n) == <<"numa", n>>

\* a pool node created under a parent
NewNode(node, parent) == [node |-> node, parent |-> parent]

\* the virtual root of a multi-socket system and the socket nodes
RootAndSockets ==
    IF SocketCount > 1
    THEN {NewNode(VirtualNode, nilnode)}
         \cup {NewNode(SocketNode(p), VirtualNode) : p \in PackageIDs}
    ELSE {NewNode(SocketNode(p), nilnode) : p \in PackageIDs}

\* the packages that get die nodes
DiePackages(omitDies) ==
    IF omitDies THEN {}
    ELSE {p \in PackageIDs : Cardinality(DieIDs(p)) >= 2}

Dies(omitDies) ==
    UNION {{NewNode(DieNode(p, d), SocketNode(p)) : d \in DieIDs(p)} :
              p \in DiePackages(omitDies)}

\* numaDies: the NUMA nodes that have a die node, and that node
HasNumaDie(n, omitDies) ==
    \E p \in DiePackages(omitDies) : \E d \in DieIDs(p) : n \in DieNodeIDs(p, d)

NumaDie(n, omitDies) ==
    LET pd == CHOOSE e \in DiePackages(omitDies) \X {0, 1} :
                  n \in DieNodeIDs(e[1], e[2])
    IN  DieNode(pd[1], pd[2])

\* parentNumaNodeCountWithCPUs: the CPU-ful NUMA nodes in the die of node n
parentNumaNodeCountWithCPUs(n) ==
    Cardinality({m \in DieNodeIDs(PackageID(n), DieID(n)) : HasCPUs(m)})

\* the die or socket a DRAM node would become a child of
WouldBeParent(n, omitDies) ==
    IF HasNumaDie(n, omitDies) THEN NumaDie(n, omitDies)
    ELSE SocketNode(PackageID(n))

\* is the pool of DRAM node n omitted for being a lone child ?
Omitted(n) == parentNumaNodeCountWithCPUs(n) < 2

NumaNodes(omitDies) ==
    {NewNode(NumaNode(n), WouldBeParent(n, omitDies)) :
        n \in {m \in DramNodes : ~Omitted(m)}}

\* numaSurrogates after the loop over the NUMA nodes
NumaSurrogates(omitDies) ==
    [n \in DramNodes |->
        IF Omitted(n) THEN WouldBeParent(n, omitDies) ELSE NumaNode(n)]

(***************************************************************************)
(* assignNUMANodes                                                         *)
(***************************************************************************)
\* a Go map read: the zero value for a missing key
Get(m, k) == IF k \in DOMAIN m THEN m[k] ELSE <<>>
Put(m, k, v) == [x \in DOMAIN m \cup {k} |-> IF x = k THEN v ELSE m[x]]
EmptyMap == [x \in {} |-> <<>>]

\* closest[xmemID]: the DRAM nodes at the least distance, in ascending order
Closest(xmemID) ==
    SortedMembers({d \in DramNodes : \A e \in DramNodes :
                      NodeDistance(xmemID, d) <= NodeDistance(xmemID, e)})

\* a taker loop that takes the first of the closest DRAM nodes
RECURSIVE FirstTaker(_, _, _, _, _)
FirstTaker(min, k, takerID, surr, asg) ==
    IF k > Len(min) THEN takerID
    ELSE IF takerID = Nil THEN FirstTaker(min, k + 1, min[k], surr, asg)
    ELSE FirstTaker(min, k + 1, takerID, surr, asg)

\* the loop over `min` that picks the taker: the DRAM id left in takerID
RECURSIVE Taker(_, _, _, _, _)
Taker(min, k, takerID, surr, asg) ==
    IF k > Len(min) THEN takerID
    ELSE IF takerID = Nil THEN Taker(min, k + 1, min[k], surr, asg)
    ELSE IF Len(Get(asg, surr[takerID])) > Len(Get(asg, surr[min[k]]))
    THEN Taker(min, k + 1, min[k], surr, asg)
    ELSE Taker(min, k + 1, takerID, surr, asg)

\* the orders a range loop may visit the members of a set in
Orders(S) ==
    {o \in [1 .. Cardinality(S) -> S] :
        \A i \in DOMAIN o : \A j \in DOMAIN o : i # j => o[i] # o[j]}

\* the loop that prepends every DRAM node to the list of its surrogate
RECURSIVE PrependDRAM(_, _, _, _)
PrependDRAM(order, k, surr, asg) ==
    IF k > Len(order) THEN asg
    ELSE PrependDRAM(order, k + 1, surr,
                     Put(asg, surr[order[k]],
                         <<order[k]>> \o Get(asg, surr[order[k]])))

\* idset.NewIDSet(ids...).SortedMembers()
SortedIDs(ids) == SortedMembers({ids[k] : k \in 1 .. Len(ids)})

\* lines 173-175: the HBM assignments merged into the PMEM assignments
Merged(asg, hbms) ==
    [n \in DOMAIN asg \cup DOMAIN hbms |->
        IF n \in DOMAIN hbms THEN SortedIDs(Get(asg, n) \o hbms[n])
        ELSE asg[n]]

NoAssign == [none |-> TRUE]

(***************************************************************************)
(* The steps of buildPoolsByTopology                                       *)
(***************************************************************************)
\* the topology builder before a snapshot is taken
TopoIdle ==
    /\ hw = BaseHw
    /\ hwSlot = <<0, 0>>
    /\ phase = "snapshot"
    /\ nodes = {}
    /\ surrogates = EmptyMap
    /\ todo = {}
    /\ call = EmptyMap
    /\ assigned = EmptyMap
    /\ discovered = EmptyMap
    /\ lastAssign = NoAssign

\* sysfs discovery: a field of a NUMA node of the snapshot
DiscoverNode ==
    /\ phase = "snapshot"
    /\ \E n \in Nodes : \E k \in 1 .. NHw : \E v \in HwDom(HwFields[k]) :
          /\ HwMayDeviate(NodeSlot(n, k))
          /\ v # BaseHw[HwFields[k]][n]
          /\ hw' = [hw EXCEPT ![HwFields[k]][n] = v]
          /\ hwSlot' = <<NodeSlot(n, k), hwSlot[2] + 1>>
    /\ UNCHANGED <<phase, nodes, surrogates, todo, call, assigned, discovered,
                   lastAssign>>
    /\ UNCHANGED <<cmpVars, allocVars, metricsVars>>

\* sysfs discovery: the distance of two NUMA nodes, the same both ways or not
DiscoverDistance ==
    /\ phase = "snapshot"
    /\ \E a \in Nodes : \E b \in Nodes : \E symmetric \in BOOLEAN :
          /\ a < b
          /\ HwMayDeviate(PairSlot(a, b))
          /\ hw' = [hw EXCEPT !.dist =
                       [e \in Nodes \X Nodes |->
                           IF e = <<a, b>> \/ (symmetric /\ e = <<b, a>>)
                           THEN FarDistance ELSE hw.dist[e]]]
          /\ hwSlot' = <<PairSlot(a, b), hwSlot[2] + 1>>
    /\ UNCHANGED <<phase, nodes, surrogates, todo, call, assigned, discovered,
                   lastAssign>>
    /\ UNCHANGED <<cmpVars, allocVars, metricsVars>>

\* lines 31-168: the check of the hardware, then the pool nodes and the
\* surrogates; the first assignNUMANodes call is about to run
BuildPools ==
    /\ phase = "snapshot"
    /\ \E chk \in {checkHWTopology} :
          IF chk.err
          THEN /\ phase' = "error"
               /\ UNCHANGED <<nodes, surrogates, todo>>
          ELSE /\ phase' = "pmem"
               /\ nodes' = RootAndSockets \cup Dies(chk.omitDies)
                           \cup NumaNodes(chk.omitDies)
               /\ surrogates' = NumaSurrogates(chk.omitDies)
               /\ todo' = PmemNodes
    /\ UNCHANGED <<hw, hwSlot, call, assigned, discovered, lastAssign>>
    /\ UNCHANGED <<cmpVars, allocVars, metricsVars>>

\* lines 255-280: one round of the loop over `closest`, in any order
AssignNode ==
    /\ phase \in {"pmem", "hbm"}
    /\ \E xmemID \in todo :
       \E takerID \in {Taker(Closest(xmemID), 1, Nil, surrogates, call)} :
          IF takerID = Nil
          THEN /\ phase' = "panic"
               /\ UNCHANGED <<todo, call, lastAssign>>
          ELSE /\ call' = Put(call, surrogates[takerID],
                              Append(Get(call, surrogates[takerID]), xmemID))
               /\ todo' = todo \ {xmemID}
               /\ lastAssign' = [xmem |-> xmemID, takerID |-> takerID,
                                 taker |-> surrogates[takerID],
                                 before |-> call]
               /\ UNCHANGED phase
    /\ UNCHANGED <<hw, hwSlot, nodes, surrogates, assigned, discovered>>
    /\ UNCHANGED <<cmpVars, allocVars, metricsVars>>

\* lines 283-289 and 171-175: the DRAM nodes go to their surrogates and the
\* call returns; the HBM call follows the PMEM call and is merged into it
AssignDRAMNodes ==
    /\ phase \in {"pmem", "hbm"}
    /\ todo = {}
    /\ \E order \in Orders(DramNodes) :
       \E result \in {PrependDRAM(order, 1, surrogates, call)} :
          IF phase = "pmem"
          THEN /\ assigned' = result
               /\ todo' = HbmNodes
               /\ phase' = "hbm"
          ELSE /\ assigned' = Merged(assigned, result)
               /\ todo' = {}
               /\ phase' = "walk"
    /\ call' = EmptyMap
    /\ lastAssign' = NoAssign
    /\ UNCHANGED <<hw, hwSlot, nodes, surrogates, discovered>>
    /\ UNCHANGED <<cmpVars, allocVars, metricsVars>>

\* lines 185-211: every pool of the tree discovers its supply from the NUMA
\* nodes assigned to it; an assignment left over is fatal
DiscoverSupplies ==
    /\ phase = "walk"
    /\ discovered' = [n \in {e.node : e \in nodes} |-> Get(assigned, n)]
    /\ assigned' = [n \in DOMAIN assigned \ {e.node : e \in nodes} |->
                       assigned[n]]
    /\ phase' = IF DOMAIN assigned' # {} THEN "fatal" ELSE "built"
    /\ UNCHANGED <<hw, hwSlot, nodes, surrogates, todo, call, lastAssign>>
    /\ UNCHANGED <<cmpVars, allocVars, metricsVars>>

(***************************************************************************)
(* The balloons policy: the metrics projection (metrics.go).  Strings that *)
(* are sorted or joined are sequences of bytes.                            *)
(***************************************************************************)
MaxBalloons == 2       \* how many balloons p.balloons holds at most
MaxCpu == 2            \* the CPUs of the balloons policy are 0 .. MaxCpu
MaxChanges == 3        \* how many changes of the balloons a behaviour has

BalloonCpus == 0 .. MaxCpu
ContainerIDs == {"k1", "k2", "k3"}
PodNames == {"p1", "p2"}
GroupNames == {<<103, 49>>, <<103, 50>>}
Comma == <<44>>

\* the pod a container belongs to
PodOf(c) == IF c = "k3" THEN "p2" ELSE "p1"

\* the group a container's pod is counted in
GroupOf(c) == IF c = "k1" THEN <<103, 50>> ELSE <<103, 49>>

\* Container.PrettyName(): not in the order of the ids
PrettyName(c) ==
    CASE c = "k1" -> <<98>>
      [] c = "k2" -> <<97>>
      [] OTHER -> <<97, 98>>

\* p.containerRequestedMilliCpus(containerID)
containerRequestedMilliCpus(c) ==
    CASE c = "k1" -> 500
      [] c = "k2" -> 1000
      [] OTHER -> 250

\* strconv.Itoa
RECURSIVE Digits(_)
Digits(n) ==
    IF n < 10 THEN <<48 + n>> ELSE Digits(n \div 10) \o <<48 + (n % 10)>>

Itoa(n) == IF n < 0 THEN <<45>> \o Digits(0 - n) ELSE Digits(n)

\* the order of Go strings: bytewise
RECURSIVE StrLess(_, _)
StrLess(s, t) ==
    IF s = <<>> THEN t # <<>>
    ELSE IF t = <<>> THEN FALSE
    ELSE IF Head(s) # Head(t) THEN Head(s) < Head(t)
    ELSE StrLess(Tail(s), Tail(t))

\* a sort that leaves the list as it is
Unsorted(l) == l

\* sort.Strings
RECURSIVE SortStrings(_)
SortStrings(l) ==
    IF l = <<>> THEN <<>>
    ELSE LET k == CHOOSE i \in 1 .. Len(l) :
                      \A j \in 1 .. Len(l) : ~StrLess(l[j], l[i])
         IN  <<l[k]>> \o SortStrings(SubSeq(l, 1, k - 1) \o SubSeq(l, k + 1, Len(l)))

\* strings.Join
RECURSIVE Join(_, _)
Join(l, sep) ==
    IF l = <<>> THEN <<>>
    ELSE IF Len(l) = 1 THEN l[1]
    ELSE l[1] \o sep \o Join(Tail(l), sep)

\* the orders a range over a Go map with the keys S can take
Perms(S) ==
    {s \in [1 .. Cardinality(S) -> S] :
        \A a \in DOMAIN s : \A b \in DOMAIN s : a # b => s[a] # s[b]}

\* p.cpuTree.CpuLocations(cpus): the names of the packages (index 1), dies
\* (2) and NUMA nodes (3) that enclose the CPUs, each level sorted; the
\* level of index 0 is not used.  One package, a die and a NUMA node for
\* every two CPUs.
CpuLocations(cpus) ==
    LET Names(ids) == SortStrings([k \in 1 .. Cardinality(ids) |->
                                      Itoa(SortedMembers(ids)[k])])
    IN  <<<<>>,
          Names({0 : c \in cpus}),
          Names({c \div 2 : c \in cpus}),
          Names({c \div 2 : c \in cpus})>>

\* bln.Mems: the memory nodes of the CPUs of a balloon
MemsOf(cpus) == {c \div 2 : c \in cpus}

\* the balloon types of the configuration
BalloonDefs ==
    <<[Name |-> "dflt", CpuClass |-> "", MinCpus |-> 0, MaxCpus |-> 0],
      [Name |-> "fast", CpuClass |-> "turbo", MinCpus |-> 1, MaxCpus |-> 2]>>

\* the CPUs no balloon has
FreeCpus ==
    BalloonCpus \ UNION {balloons[i].Cpus : i \in 1 .. Len(balloons)}

\* the balloon a container is assigned to (0: none)
BalloonOf(c) ==
    IF \E i \in 1 .. Len(balloons) : \E pod \in DOMAIN balloons[i].PodIDs :
           \E k \in 1 .. Len(balloons[i].PodIDs[pod]) :
               balloons[i].PodIDs[pod][k] = c
    THEN CHOOSE i \in 1 .. Len(balloons) :
             \E pod \in DOMAIN balloons[i].PodIDs :
                 \E k \in 1 .. Len(balloons[i].PodIDs[pod]) :
                     balloons[i].PodIDs[pod][k] = c
    ELSE 0

\* the container ids of a balloon, pod by pod in the order pord
RECURSIVE ContainerIDsIn(_, _)
ContainerIDsIn(bln, pord) ==
    IF Len(pord) = 0 THEN <<>>
    ELSE bln.PodIDs[pord[1]] \o ContainerIDsIn(bln, Tail(pord))

RECURSIVE SumMilliCpus(_)
SumMilliCpus(ids) ==
    IF ids = <<>> THEN 0
    ELSE containerRequestedMilliCpus(Head(ids)) + SumMilliCpus(Tail(ids))

\* bm.Cpus.Union(bm.SharedIdleCpus) taken as the CPUs of the balloon alone
CpusAllowedOwnOnly(bln) == bln.Cpus

\* bm.CpusAllowed
CpusAllowed(bln) == bln.Cpus \cup bln.SharedIdleCpus

\* the body of the loop of GetMetrics: the BalloonMetrics of balloon bln,
\* its group map ranged over in the order gord, its pod map in the order pord
BalloonMetrics(bln, cch, gord, pord) ==
    LET cpuLoc == CpuLocations(bln.Cpus)
        Counted(group) == bln.Groups[group] > 0
        groups == SelectSeq(gord, Counted)
        Found(c) == c \in cch
        found == SelectSeq(ContainerIDsIn(bln, pord), Found)
        cNames == [k \in 1 .. Len(found) |-> PrettyName(found[k])]
        located == Len(cpuLoc) > 3
    IN  [DefName |-> bln.Def.Name,
         CpuClass |-> bln.Def.CpuClass,
         MinCpus |-> bln.Def.MinCpus,
         MaxCpus |-> bln.Def.MaxCpus,
         PrettyName |-> bln.PrettyName,
         Groups |-> Join(SortStrings(groups), Comma),
         Cpus |-> bln.Cpus,
         CpusCount |-> Cardinality(bln.Cpus),
         Numas |-> IF located THEN cpuLoc[4] ELSE <<>>,
         NumasCount |-> IF located THEN Len(cpuLoc[4]) ELSE 0,
         Dies |-> IF located THEN cpuLoc[3] ELSE <<>>,
         DiesCount |-> IF located THEN Len(cpuLoc[3]) ELSE 0,
         Packages |-> IF located THEN cpuLoc[2] ELSE <<>>,
         PackagesCount |-> IF located THEN Len(cpuLoc[2]) ELSE 0,
         SharedIdleCpus |-> bln.SharedIdleCpus,
         SharedIdleCpusCount |-> Cardinality(bln.SharedIdleCpus),
         CpusAllowed |-> CpusAllowed(bln),
         CpusAllowedCount |-> Cardinality(CpusAllowed(bln)),
         Mems |-> SortedMembers(bln.Mems),
         ContainerNames |-> Join(SortStrings(cNames), Comma),
         ContainerReqMilliCpus |-> SumMilliCpus(found)]

\* prometheus.MustNewConstMetric(descriptors[balloonsDesc], GaugeValue, ...)
ConstMetric(bm) ==
    [value |-> Cardinality(bm.Cpus),
     labels |-> <<bm.DefName,
                  bm.CpuClass,
                  Itoa(bm.MinCpus),
                  Itoa(bm.MaxCpus),
                  bm.PrettyName,
                  bm.Groups,
                  SortedMembers(bm.Cpus),
                  Itoa(bm.CpusCount),
                  Join(bm.Numas, Comma),
                  Itoa(bm.NumasCount),
                  Join(bm.Dies, Comma),
                  Itoa(bm.DiesCount),
                  Join(bm.Packages, Comma),
                  Itoa(bm.PackagesCount),
                  SortedMembers(bm.SharedIdleCpus),
                  Itoa(bm.SharedIdleCpusCount),
                  SortedMembers(bm.CpusAllowed),
                  Itoa(bm.CpusAllowedCount),
                  bm.Mems,
                  bm.ContainerNames,
                  Itoa(bm.ContainerReqMilliCpus)>>]

\* a nil *Metrics
NilMetrics == [nil |-> TRUE]
NoSamples == [none |-> TRUE]

\* the orders the two map ranges of GetMetrics can take, balloon by balloon
IterationOrders ==
    {o \in [1 .. Len(balloons) ->
               [groups : UNION {Perms(G) : G \in SUBSET GroupNames},
                pods : UNION {Perms(P) : P \in SUBSET PodNames}]] :
        \A i \in 1 .. Len(balloons) :
            /\ o[i].groups \in Perms(DOMAIN balloons[i].Groups)
            /\ o[i].pods \in Perms(DOMAIN balloons[i].PodIDs)}

\* the balloons policy has no balloon and nothing was collected
MetricsIdle ==
    /\ balloons = <<>>
    /\ cached = {}
    /\ metrics = NilMetrics
    /\ samples = <<>>
    /\ fresh = FALSE
    /\ run = 0
    /\ prev = NoSamples
    /\ changes = 0

\* what every change of the balloons does to the bookkeeping
Changed ==
    /\ changes < MaxChanges
    /\ changes' = changes + 1
    /\ fresh' = FALSE
    /\ run' = 0
    /\ prev' = NoSamples
    /\ UNCHANGED <<metrics, samples>>
    /\ UNCHANGED <<cmpVars, allocVars, topoVars>>

\* the policy creates a balloon of the next type; its pretty name is the
\* name of the type and the number of the instance
CreateBalloon ==
    /\ Len(balloons) < MaxBalloons
    /\ \E cpus \in SUBSET FreeCpus :
          balloons' = Append(balloons,
              [Def |-> BalloonDefs[(Len(balloons) % Len(BalloonDefs)) + 1],
               PrettyName |-> <<BalloonDefs[(Len(balloons) % Len(BalloonDefs)) + 1].Name,
                                Len(balloons) \div Len(BalloonDefs)>>,
               Cpus |-> cpus,
               SharedIdleCpus |-> {},
               Mems |-> MemsOf(cpus),
               Groups |-> [g \in {} |-> 0],
               PodIDs |-> [pod \in {} |-> <<>>]])
    /\ UNCHANGED cached
    /\ Changed

\* the policy resizes balloon i; the idle CPUs may be shared with it
ResizeBalloon ==
    /\ \E i \in 1 .. Len(balloons) :
       \E cpus \in SUBSET (FreeCpus \cup balloons[i].Cpus) :
       \E share \in BOOLEAN :
          /\ cpus # balloons[i].Cpus \/ share
          /\ balloons' = [j \in 1 .. Len(balloons) |->
                IF j = i
                THEN [balloons[j] EXCEPT
                        !.Cpus = cpus,
                        !.SharedIdleCpus =
                            IF share THEN (FreeCpus \cup balloons[i].Cpus) \ cpus
                            ELSE {},
                        !.Mems = MemsOf(cpus)]
                ELSE [balloons[j] EXCEPT !.SharedIdleCpus = @ \ cpus]]
          /\ balloons' # balloons
    /\ UNCHANGED cached
    /\ Changed

\* a container is assigned to balloon i
AssignContainer ==
    /\ \E c \in ContainerIDs : \E i \in 1 .. Len(balloons) :
          /\ BalloonOf(c) = 0
          /\ LET bln == balloons[i]
                 pod == PodOf(c)
                 group == GroupOf(c)
                 ids == IF pod \in DOMAIN bln.PodIDs THEN bln.PodIDs[pod] ELSE <<>>
                 count == IF group \in DOMAIN bln.Groups THEN bln.Groups[group] ELSE 0
             IN  balloons' = [balloons EXCEPT ![i] =
                    [bln EXCEPT
                       !.PodIDs = [q \in DOMAIN bln.PodIDs \cup {pod} |->
                                      IF q = pod THEN Append(ids, c)
                                      ELSE bln.PodIDs[q]],
                       !.Groups = [g \in DOMAIN bln.Groups \cup {group} |->
                                      IF g = group THEN count + 1
                                      ELSE bln.Groups[g]]]]
          /\ cached' = cached \cup {c}
    /\ Changed

\* a container is dismissed from its balloon; its group stays in the map
DismissContainer ==
    /\ \E c \in ContainerIDs :
          /\ BalloonOf(c) # 0
          /\ LET i == BalloonOf(c)
                 bln == balloons[i]
                 pod == PodOf(c)
                 Other(id) == id # c
                 ids == SelectSeq(bln.PodIDs[pod], Other)
             IN  balloons' = [balloons EXCEPT ![i] =
                    [bln EXCEPT
                       !.PodIDs = [q \in (DOMAIN bln.PodIDs)
                                         \ (IF ids = <<>> THEN {pod} ELSE {}) |->
                                      IF q = pod THEN ids ELSE bln.PodIDs[q]],
                       !.Groups = [bln.Groups EXCEPT ![GroupOf(c)] = @ - 1]]]
    /\ UNCHANGED cached
    /\ Changed

\* the cache loses a container that a balloon still lists
ForgetContainer ==
    /\ \E c \in cached :
          /\ BalloonOf(c) # 0
          /\ cached' = cached \ {c}
    /\ UNCHANGED balloons
    /\ Changed

\* GetMetrics: one BalloonMetrics for every balloon of p.balloons
GetMetrics ==
    /\ \E o \in IterationOrders :
          metrics' = [Balloons |-> [i \in 1 .. Len(balloons) |->
                         BalloonMetrics(balloons[i], cached,
                                        o[i].groups, o[i].pods)]]
    /\ fresh' = TRUE
    /\ UNCHANGED <<balloons, cached, samples, run, prev, changes>>
    /\ UNCHANGED <<cmpVars, allocVars, topoVars>>

\* what Collect sends to the channel for the Metrics m
Collected(m) ==
    IF m = NilMetrics THEN <<>>
    ELSE [i \in 1 .. Len(m.Balloons) |-> ConstMetric(m.Balloons[i])]

\* Metrics.Collect
Collect ==
    /\ samples' = Collected(metrics)
    /\ fresh' = FALSE
    /\ run' = IF fresh /\ run < 2 THEN run + 1 ELSE run
    /\ prev' = IF fresh /\ run = 0 THEN Collected(metrics) ELSE prev
    /\ UNCHANGED <<balloons, cached, metrics, changes>>
    /\ UNCHANGED <<cmpVars, allocVars, topoVars>>

(***************************************************************************)
(* Spec: the allocator                                                     *)
(***************************************************************************)
AllocInit ==
    /\ opt \in {[PinCPU |-> TRUE, PinMemory |-> TRUE],
                [PinCPU |-> TRUE, PinMemory |-> FALSE],
                [PinCPU |-> FALSE, PinMemory |-> FALSE]}
    /\ sysReserved \in ReservedChoices
    /\ hideHT = {"c1"}
    /\ freeIsolated = IsolatedAll
    /\ freeSharable = (AllCPUs \ IsolatedAll) \ sysReserved
    /\ grantedShared = [n \in Pools |-> 0]
    /\ grantedReserved = 0
    /\ grants = [c \in Containers |-> NoGrant]
    /\ saved = grants
    /\ cpusetCpus = [c \in Containers |-> <<>>]
    /\ cpusetMems = [c \in Containers |-> <<>>]
    /\ cpuShares = [c \in Containers |-> 0]
    /\ pc = "idle"
    /\ trigger = NoGrant
    /\ last = NoCall
    /\ snap = NoSnap
    /\ calls = 0
    /\ pick = NoPick

Init ==
    /\ AllocInit
    /\ TopoIdle
    /\ MetricsIdle
    /\ request = BaseRequest
    /\ scores = [n \in Pools |-> BaseScore]
    /\ affinity = [n \in Pools |-> 0]
    /\ sorted = pools
    /\ slot = <<0, 0>>

Next ==
    \/ AllocatePool
    \/ ApplyGrant
    \/ UpdateSharedAllocations
    \/ ReleasePool
    \/ Return

Spec == Init /\ [][Next]_vars

(***************************************************************************)
(* CmpSpec: the comparator over the bounded inputs                         *)
(***************************************************************************)
CmpInit ==
    /\ request = BaseRequest
    /\ scores = [n \in Pools |-> BaseScore]
    /\ affinity = [n \in Pools |-> 0]
    /\ sorted = pools
    /\ slot = <<0, 0>>
    /\ AllocInit
    /\ opt.PinCPU
    /\ opt.PinMemory
    /\ sysReserved = {}
    /\ TopoIdle
    /\ MetricsIdle

\* newRequest: the request the comparison is made for
NewRequest ==
    \E k \in 1..NReq : \E v \in ReqDom(ReqFields[k]) :
        /\ MayDeviate(k)
        /\ v # BaseRequest[ReqFields[k]]
        /\ request' = [request EXCEPT ![ReqFields[k]] = v]
        /\ sorted' = pools
        /\ slot' = <<k, slot[2] + 1>>
        /\ UNCHANGED <<scores, affinity>>
        /\ UNCHANGED <<allocVars, topoVars, metricsVars>>

\* scores[n.NodeID()] = n.GetScore(req): the score reported for pool n
SetScore ==
    \E n \in Pools : \E k \in 1..NScore : \E v \in ScoreDom(ScoreFields[k]) :
        /\ MayDeviate(ScoreSlot(n, k))
        /\ v # BaseScore[ScoreFields[k]]
        /\ scores' = [scores EXCEPT ![n][ScoreFields[k]] = v]
        /\ sorted' = pools
        /\ slot' = <<ScoreSlot(n, k), slot[2] + 1>>
        /\ UNCHANGED <<request, affinity>>
        /\ UNCHANGED <<allocVars, topoVars, metricsVars>>

\* calculatePoolAffinities: the affinity weight of pool n
CalculatePoolAffinities ==
    \E n \in Pools : \E v \in AffinityDom :
        /\ MayDeviate(AffinitySlot(n))
        /\ v # 0
        /\ affinity' = [affinity EXCEPT ![n] = v]
        /\ sorted' = pools
        /\ slot' = <<AffinitySlot(n), slot[2] + 1>>
        /\ UNCHANGED <<request, scores>>
        /\ UNCHANGED <<allocVars, topoVars, metricsVars>>

SortPoolsByScore ==
    /\ sorted' = sortPoolsByScore(request, scores, affinity)
    /\ UNCHANGED <<request, scores, affinity, slot>>
    /\ UNCHANGED <<allocVars, topoVars, metricsVars>>

CmpNext ==
    \/ NewRequest
    \/ SetScore
    \/ CalculatePoolAffinities
    \/ SortPoolsByScore

CmpSpec == CmpInit /\ [][CmpNext]_vars

(***************************************************************************)
(* TopoSpec: the topology builder over the bounded hardware snapshots      *)
(***************************************************************************)
TopoInit == CmpInit

TopoNext ==
    \/ DiscoverNode
    \/ DiscoverDistance
    \/ BuildPools
    \/ AssignNode
    \/ AssignDRAMNodes
    \/ DiscoverSupplies

TopoSpec == TopoInit /\ [][TopoNext]_vars

(***************************************************************************)
(* MetricsSpec: the metrics projection over the changes of the balloons    *)
(***************************************************************************)
MetricsInit == CmpInit

MetricsNext ==
    \/ CreateBalloon
    \/ ResizeBalloon
    \/ AssignContainer
    \/ DismissContainer
    \/ ForgetContainer
    \/ GetMetrics
    \/ Collect

MetricsSpec == MetricsInit /\ [][MetricsNext]_vars

(***************************************************************************)
(* Properties of the comparator (CmpSpec)                                  *)
(***************************************************************************)

\* compareScores on the current inputs, by pool
Less(a, b) == compareScores(request, pools, scores, affinity, a + 1, b + 1)

\* C1: compareScores is antisymmetric: for every two distinct pools A and B
\* exactly one of compare(A, B) and compare(B, A) returns true.
C1_Antisymmetric ==
    \A a \in Pools : \A b \in Pools \ {a} : Less(a, b) # Less(b, a)

\* C2: compareScores is transitive: for every three distinct pools, A before
\* B and B before C imply A before C.
C2_Transitive ==
    \A a \in Pools : \A b \in Pools \ {a} : \A c \in Pools \ {a, b} :
        (Less(a, b) /\ Less(b, c)) => Less(a, c)

(***************************************************************************)
(* Properties of the allocator (Spec)                                      *)
(***************************************************************************)
\* the containers that have a grant with exclusive CPUs
Exclusive == {c \in GrantedIDs : grants[c].exclusive # {}}

\* C3: after any sequence of allocatePool and releasePool calls, no CPU is in
\* the exclusive CPU set of two different grants of the allocations table.
C3_ExclusiveDisjoint ==
    \A c \in Exclusive : \A d \in Exclusive \ {c} :
        grants[c].exclusive \cap grants[d].exclusive = {}

\* two grants with exclusive CPUs, after the budget of calls is used up
C3_Witness ==
    /\ Exclusive = Containers
    /\ calls = MaxCalls
    /\ pc = "idle"

\* updateSharedAllocations has just run for a normal grant with exclusive
\* CPUs that allocatePool returned, with CPU pinning enabled
CascadeDone ==
    /\ pc = "done"
    /\ last.op = "updateSharedAllocations"
    /\ last.after = "allocatePool"
    /\ opt.PinCPU
    /\ trigger.cpuType = cpuNormal
    /\ trigger.exclusive # {}

\* the other containers whose normal grant uses shared CPUs of a pool that
\* holds a CPU of the set X
SharedUsers(X) ==
    {d \in GrantedIDs \ {trigger.container} :
        /\ grants[d].cpuType = cpuNormal
        /\ grants[d].exclusive = {} \/ grants[d].portion > 0
        /\ X \cap PoolCPUs(grants[d].pool) # {}}

\* C4: after allocatePool grants exclusive CPUs X to a normal container and
\* updateSharedAllocations runs for that grant with PinCPU enabled, the cpuset
\* of every other normal grant using shared CPUs of a pool that held X has no
\* CPU of X.
C4_SharedCascade ==
    CascadeDone =>
        \A d \in SharedUsers(trigger.exclusive) :
            ParseSet(cpusetCpus[d]) \cap trigger.exclusive = {}

\* the cascade re-pinned a container that was pinned to shared CPUs
C4_Witness ==
    /\ CascadeDone
    /\ trigger.exclusive \cap IsolatedAll = {}
    /\ \E d \in SharedUsers(trigger.exclusive) : cpusetCpus[d] # <<>>

\* C5: when allocatePool returns an error, the allocations table, the memory
\* zone of every grant, the cpuset-mems of every container and the supply of
\* every pool are as before the call, and the allocations are not saved.
C5_FailedAdmitChangesNothing ==
    (last.op = "allocatePool" /\ ~last.ok) =>
        /\ Snapshot = last.pre
        /\ ~last.saved

\* supply.Allocate failed while the allocations table held a grant
C5_Witness ==
    /\ last.op = "allocatePool"
    /\ ~last.ok
    /\ last.err = "failed to allocate"
    /\ GrantedIDs # {}

\* C6: for a container without a prior grant, allocatePool followed by
\* releasePool of the same container leaves the isolated, reserved and
\* sharable CPUs of every pool and the container IDs of the allocations
\* table as they were before the admit.
C6_RoundTrip ==
    (last.op = "releasePool" /\ last.ok /\ last.pre # NoSnap) =>
        /\ Supplies = last.pre.supplies
        /\ GrantedIDs = last.pre.ids

\* a grant with exclusive CPUs was released right after its admit
C6_Witness ==
    /\ last.op = "releasePool"
    /\ last.ok
    /\ last.pre # NoSnap
    /\ trigger.exclusive # {}

(***************************************************************************)
(* Properties of the topology builder (TopoSpec)                           *)
(***************************************************************************)
PoolNodes == {e.node : e \in nodes}
ChildrenOf(n) == {e.node : e \in {f \in nodes : f.parent = n}}
IDs(ids) == {ids[k] : k \in 1 .. Len(ids)}

\* C7: after a successful buildPoolsByTopology every NUMA node of the
\* snapshot, of any memory type, is among the NUMA nodes of exactly one pool.
C7_AssignedToOnePool ==
    phase = "built" =>
        \A n \in Nodes :
            Cardinality({m \in PoolNodes : n \in IDs(discovered[m])}) = 1

\* C8: the tree built has no pool with exactly one child: a NUMA leaf has at
\* least one NUMA leaf as a sibling, and a die pool lies in a package with at
\* least two dies.
C8_NoSingleChild ==
    phase = "built" =>
        /\ \A n \in PoolNodes : Cardinality(ChildrenOf(n)) # 1
        /\ \A e \in nodes :
              e.node[1] = "numa" =>
                 Cardinality({c \in ChildrenOf(e.parent) : c[1] = "numa"}) >= 2
        /\ \A e \in nodes :
              e.node[1] = "die" => Cardinality(DieIDs(e.node[2])) >= 2

\* the DRAM nodes at the least distance from NUMA node x
ClosestDRAM(x) ==
    {d \in DramNodes :
        \A e \in DramNodes : NodeDistance(x, d) <= NodeDistance(x, e)}

\* the assignments the surrogate of DRAM node d held before the last one
HeldBefore(d) == Len(Get(lastAssign.before, surrogates[d]))

\* C9: assignNUMANodes gives a PMEM or HBM node x to the surrogate of a DRAM
\* node at the least distance from x; of the closest DRAM nodes it takes one
\* whose surrogate holds the fewest assignments when x is processed, the one
\* with the lowest ID if several do.
C9_ClosestLeastLoaded ==
    lastAssign # NoAssign =>
        /\ lastAssign.takerID \in ClosestDRAM(lastAssign.xmem)
        /\ lastAssign.taker = surrogates[lastAssign.takerID]
        /\ lastAssign.xmem \in IDs(Get(call, lastAssign.taker))
        /\ \A d \in ClosestDRAM(lastAssign.xmem) :
              /\ HeldBefore(lastAssign.takerID) <= HeldBefore(d)
              /\ HeldBefore(d) = HeldBefore(lastAssign.takerID)
                    => lastAssign.takerID <= d

\* a closest DRAM node with a lower ID was passed over for holding more
C9_Witness ==
    /\ lastAssign # NoAssign
    /\ \E d \in ClosestDRAM(lastAssign.xmem) :
          d < lastAssign.takerID /\ HeldBefore(d) > HeldBefore(lastAssign.takerID)

\* C10: buildPoolsByTopology builds no pool from a snapshot with an
\* asymmetric distance matrix or with packages that share a NUMA node:
\* checkHWTopology reports an error for it.
C10_InvalidSnapshotRejected ==
    (phase # "snapshot" /\ (AsymmetricDistance \/ SocketsShareNode)) =>
        (phase = "error" /\ nodes = {})

(***************************************************************************)
(* Further properties of the comparator (CmpSpec)                          *)
(***************************************************************************)
\* has pool n the capacity the request asks for ?
Sufficient(n) ==
    CASE request.cpuType = cpuNormal ->
           scores[n].isolated >= 0 /\ scores[n].shared > 0
      [] request.cpuType = cpuReserved -> scores[n].reserved >= 0
      [] OTHER -> TRUE

\* the place of pool n in the sorted list
Rank(n) == CHOOSE k \in 1 .. Len(sorted) : sorted[k] = n

\* C11: for a normal request a pool with non-negative isolated and positive
\* shared capacity, and for a reserved request a pool with non-negative
\* reserved capacity, is ranked by compareScores before every pool without,
\* in both argument orders, whatever the other inputs are.
C11_SufficiencyVeto ==
    request.cpuType \in {cpuNormal, cpuReserved} =>
        \A a \in Pools : \A b \in Pools \ {a} :
            (Sufficient(a) /\ ~Sufficient(b)) => (Less(a, b) /\ ~Less(b, a))

\* the sort has put a sufficient pool before an insufficient pool that has
\* the lower id and either the higher affinity score or the only offer
C11_Witness ==
    /\ request.cpuType \in {cpuNormal, cpuReserved}
    /\ \E a \in Pools : \E b \in Pools \ {a} :
          /\ Sufficient(a) /\ ~Sufficient(b)
          /\ b < a
          /\ \/ affinityScore(affinity, b) > affinityScore(affinity, a)
             \/ scores[a].offer = NoOffer /\ scores[b].offer # NoOffer
          /\ Rank(a) < Rank(b)

(***************************************************************************)
(* Properties of allocatePool (Spec)                                       *)
(***************************************************************************)
\* the step is an allocatePool call
Admits == pc = "idle" /\ pick' # NoPick

\* the error allocatePool returns once it has picked r ("" for none)
AdmitError(c, r) ==
    IF r.err # "" THEN r.err
    ELSE IF Allocate(c, r.pool, r.request, r.offer) = {}
    THEN "failed to allocate" ELSE ""

\* C12: when the root has no reserved CPUs, allocatePool of a reserved
\* request picks the pool, and fails or succeeds, exactly as the comparator
\* path does for the same request of kind normal, and a grant it returns
\* has CPU kind normal.
C12_ReservedFallback ==
    [][(Admits /\ pick'.req.cpuType = cpuReserved /\ ReservedCPUs(pools[1]) = {})
        => LET n == [pick'.req EXCEPT !.cpuType = cpuNormal]
               env == pick'.env
           IN  \E r \in {PickScored(n, Scores(n, env.failing), env.poolHint,
                                    env.aff)} :
                  /\ pick'.request = n
                  /\ pick'.pool = r.pool
                  /\ pick'.offer = r.offer
                  /\ last'.err = AdmitError(last'.container, r)
                  /\ last'.ok = (last'.err = "")
                  /\ last'.ok => /\ trigger'.cpuType = cpuNormal
                                 /\ grants'[last'.container] = trigger']_vars

\* a reserved request was granted from a pool below the root, there being
\* no reserved CPUs
C12_Witness ==
    /\ pick # NoPick
    /\ pick.req.cpuType = cpuReserved
    /\ ReservedCPUs(pools[1]) = {}
    /\ last.ok
    /\ trigger.cpuType = cpuNormal
    /\ trigger.pool # pools[1]

\* the pool allocatePool is to pick from the sorted list: the hinted pool if
\* the hint names a pool of the list, the pool at index 0 otherwise
HintedOrFirst(list, poolHint) ==
    IF poolHint # "" /\ \E k \in 1 .. Len(list) : Name(list[k]) = poolHint
    THEN list[CHOOSE k \in 1 .. Len(list) : Name(list[k]) = poolHint]
    ELSE list[1]

\* C13: for a request handled as kind normal, allocatePool goes to
\* supply.Allocate with the pool the hint names if the hint is not empty and
\* names a pool of the sorted list, whatever its rank, and with the pool at
\* index 0 of the sorted list otherwise; a grant it returns is from that pool.
C13_PoolHintOverride ==
    [][(Admits /\ pick'.request.cpuType = cpuNormal /\ ~pick'.env.aff.err)
        => LET rq == pick'.request
               env == pick'.env
           IN  \E list \in {sortPoolsByScore(rq, Scores(rq, env.failing),
                                             env.aff.weights)} :
                  /\ pick'.pool = HintedOrFirst(list, env.poolHint)
                  /\ last'.ok => trigger'.pool = HintedOrFirst(list, env.poolHint)]_vars

\* the first container of the system was granted shared CPUs from the
\* hinted pool "NUMA node #1", which ranks behind "NUMA node #0" (same
\* depth and scores, higher id)
C13_Witness ==
    /\ pick # NoPick
    /\ pick.request.cpuType = cpuNormal
    /\ pick.env.poolHint = "NUMA node #1"
    /\ last.ok
    /\ Name(trigger.pool) = "NUMA node #1"
    /\ GrantedIDs = {last.container}
    /\ calls = 1

\* the request is served from the root without the comparator
FromRoot(req) ==
    \/ req.cpuType = cpuPreserve
    \/ req.cpuType = cpuReserved /\ ReservedCPUs(pools[1]) # {}

\* C14: for a preserve request, and for a reserved request when the root has
\* reserved CPUs, allocatePool goes to supply.Allocate with the root pool and
\* the memory offer made against the root, whatever the pool hint, the
\* affinities and the scores are; a grant it returns is from the root.
C14_RootBypass ==
    (pick # NoPick /\ FromRoot(pick.req)) =>
        /\ pick.request = pick.req
        /\ pick.pool = pools[1]
        /\ pick.offer = getMemOffer(pools[1], pick.env.failing)
        /\ last.ok => /\ trigger.pool = pools[1]
                      /\ trigger.memZone = PoolMems(pools[1])
                      /\ trigger.cpuType = pick.req.cpuType
        /\ (~last.ok /\ last.err # "failed to allocate") =>
              pick.offer = NoOffer

\* a reserved or preserve request was granted from the root although the
\* caller hinted at a NUMA pool
C14_Witness ==
    /\ pick # NoPick
    /\ FromRoot(pick.req)
    /\ pick.env.poolHint = "NUMA node #1"
    /\ last.ok
    /\ trigger.pool = pools[1]

\* the shared millicpu the grants of the table hold in pool n, and the
\* reserved millicpu they hold
RECURSIVE SharedHeld(_, _)
SharedHeld(n, S) ==
    IF S = {} THEN 0
    ELSE LET c == CHOOSE x \in S : TRUE
         IN  (IF n \in AccountedPools(grants[c].pool) THEN grants[c].portion
              ELSE 0) + SharedHeld(n, S \ {c})

RECURSIVE ReservedHeld(_)
ReservedHeld(S) ==
    IF S = {} THEN 0
    ELSE LET c == CHOOSE x \in S : TRUE
         IN  grants[c].reservedPortion + ReservedHeld(S \ {c})

\* C15: when allocatePool has returned a grant for a container, the
\* allocations table (also as saved) maps the container to that grant, and
\* in every state, so also when a later allocatePool computes its scores,
\* the CPUs of every grant of the table are out of the free supply and
\* accounted in the granted capacity of the pools.
C15_AdmitVisibleToNext ==
    /\ (last.op = "allocatePool" /\ last.ok) =>
          /\ grants[last.container] = trigger
          /\ saved = grants
    /\ \A c \in GrantedIDs :
          grants[c].exclusive \cap (freeIsolated \cup freeSharable) = {}
    /\ \A n \in Pools : grantedShared[n] >= SharedHeld(n, GrantedIDs)
    /\ grantedReserved >= ReservedHeld(GrantedIDs)
    /\ \A n \in Pools :
          GetScore(n, BaseRequest @@ [fraction |-> 0], {}).colocated
             = Cardinality({c \in GrantedIDs : grants[c].pool = n})

\* the second admit of a shared request went to "NUMA node #1" because the
\* grant of the first admit is colocated in "NUMA node #0", which an empty
\* system ranks first
C15_Witness ==
    /\ pick # NoPick
    /\ last.ok
    /\ calls = 2
    /\ pick.env = PlainEnv
    /\ pick.request.cpuType = cpuNormal /\ pick.request.full = 0
    /\ GrantedIDs = Containers
    /\ \E e1 \in Containers \ {last.container} :
          /\ Name(grants[e1].pool) = "NUMA node #0"
          /\ grants[e1].cpuType = cpuNormal
          /\ grants[e1].exclusive = {}
    /\ Name(trigger.pool) = "NUMA node #1"

\* C16: when allocatePool succeeds, a zone update for a container of the
\* allocations table sets the memory zone of its grant to the update, and
\* its cpuset-mems too if and only if PinMemory is enabled; a zone update
\* for a container the table does not hold changes no grant and no
\* cpuset-mems and does not fail the call; every other grant is left alone
\* and the new grant is in the table.
C16_ZoneUpdateCascade ==
    [][(Admits /\ last'.ok)
        => LET u == pick'.upd
               c == last'.container
               known(d) == d = u /\ grants[d] # NoGrant
           IN  /\ grants'[c] = trigger'
               /\ trigger' \in Allocate(c, pick'.pool, pick'.request, pick'.offer)
               /\ \A d \in Containers \ {c} :
                     grants'[d] = IF known(d)
                                  THEN [grants[d] EXCEPT !.memZone = UpdatedZone]
                                  ELSE grants[d]
               /\ \A d \in Containers :
                     cpusetMems'[d] = IF known(d) /\ opt.PinMemory
                                      THEN SortedMembers(UpdatedZone)
                                      ELSE cpusetMems[d]]_vars

\* an admit succeeded although the offer commit returned a zone update for
\* a container the allocations table does not hold
C16_Witness ==
    /\ pick # NoPick
    /\ last.ok
    /\ pick.upd = Unknown
    /\ grants[last.container] = trigger
    /\ GrantedIDs = Containers

(***************************************************************************)
(* Properties of applyGrant and updateSharedAllocations (Spec)             *)
(***************************************************************************)
\* the step is an applyGrant call
Applies == pc = "apply" /\ pc' = "update"

\* the cpuset-mems applyGrant writes for grant g
WrittenMems(g) == SortedMembers(IF opt.PinMemory THEN g.memZone ELSE {})

\* applyGrant sets the cpuset-mems of the container unless the CPU kind of
\* the grant is preserve: it leaves it unchanged for a grant of kind
\* preserve and writes it for every grant of kind normal or reserved.
C17_MemsUnlessCpuPreserve ==
    [][Applies
        => LET g == trigger
               c == g.container
           IN  cpusetMems'[c] = IF g.cpuType = cpuPreserve THEN cpusetMems[c]
                                ELSE WrittenMems(g)]_vars

\* C17: applyGrant sets the cpuset-mems of the container unless the memory
\* type of the grant is preserve: it leaves it unchanged for a grant of
\* memory type preserve and writes it for every other grant, of whatever
\* CPU kind (the memory zone of the grant if PinMemory is enabled, the
\* empty set otherwise); no other container's cpuset-mems changes.
C17_MemsUnlessMemoryPreserve ==
    [][Applies
        => LET g == trigger
               c == g.container
           IN  /\ cpusetMems'[c] = IF g.memType = memoryPreserve
                                    THEN cpusetMems[c] ELSE WrittenMems(g)
               /\ \A d \in Containers \ {c} : cpusetMems'[d] = cpusetMems[d]]_vars

\* applyGrant has pinned the memory of a container whose grant has CPU kind
\* preserve
C17_Witness ==
    /\ pc = "update"
    /\ last.op = "applyGrant"
    /\ trigger.cpuType = cpuPreserve
    /\ trigger.memType # memoryPreserve
    /\ opt.PinMemory
    /\ cpusetMems[trigger.container] = SortedMembers(trigger.memZone)
    /\ cpusetMems[trigger.container] # <<>>

\* C18: with PinCPU enabled and no hyperthreads to hide for the container,
\* applyGrant writes as cpuset: the shared CPUs for a normal grant without
\* exclusive CPUs, the exclusive and the shared CPUs for a normal grant with
\* exclusive CPUs and a shared portion, the exclusive CPUs alone for a
\* normal grant with exclusive CPUs and no shared portion, the reserved CPUs
\* for a reserved grant; for a preserve grant it does not write the cpuset.
C18_CpusetPerKind ==
    [][(Applies /\ opt.PinCPU /\ trigger.container \notin hideHT)
        => LET g == trigger
               c == g.container
               shared == SharableCPUs(g.pool)
           IN  cpusetCpus'[c] =
                  CASE g.cpuType = cpuNormal /\ g.exclusive = {} ->
                         SortedMembers(shared)
                    [] g.cpuType = cpuNormal /\ g.exclusive # {}
                          /\ g.portion > 0 ->
                         SortedMembers(g.exclusive \cup shared)
                    [] g.cpuType = cpuNormal /\ g.exclusive # {}
                          /\ g.portion = 0 ->
                         SortedMembers(g.exclusive)
                    [] g.cpuType = cpuReserved -> SortedMembers(g.reserved)
                    [] g.cpuType = cpuPreserve -> cpusetCpus[c]]_vars

\* applyGrant has pinned a container without hyperthread hiding to the
\* exclusive and the shared CPUs of its mixed grant
C18_Witness ==
    /\ pc = "update"
    /\ last.op = "applyGrant"
    /\ opt.PinCPU
    /\ trigger.container \notin hideHT
    /\ trigger.cpuType = cpuNormal
    /\ trigger.exclusive # {}
    /\ trigger.portion > 0
    /\ SharableCPUs(trigger.pool) # {}
    /\ cpusetCpus[trigger.container]
          = SortedMembers(trigger.exclusive \cup SharableCPUs(trigger.pool))

\* the step is an updateSharedAllocations call
Updates == pc \in {"update", "idle"} /\ pc' = "done"

\* the grant the call is made for (NoGrant: for all shared allocations)
UpdateTrigger == IF pc = "update" THEN trigger ELSE NoGrant

\* C19: updateSharedAllocations leaves alone the cpuset of the container of
\* the trigger grant, of every container whose grant has CPU kind reserved
\* or preserve, and of every container whose grant has exclusive CPUs and
\* no shared portion; it changes no cpuset when the trigger grant is of kind
\* reserved; and it changes neither the allocations table nor the supply of
\* any pool.
C19_UpdateFrame ==
    [][Updates
        => /\ \A d \in Containers :
                 (\/ grants[d] = NoGrant
                  \/ UpdateTrigger # NoGrant /\ d = UpdateTrigger.container
                  \/ UpdateTrigger # NoGrant /\ UpdateTrigger.cpuType = cpuReserved
                  \/ grants[d].cpuType \in {cpuReserved, cpuPreserve}
                  \/ grants[d].exclusive # {} /\ grants[d].portion = 0)
                 => cpusetCpus'[d] = cpusetCpus[d]
           /\ grants' = grants
           /\ saved' = saved
           /\ Supplies' = Supplies
           /\ grantedShared' = grantedShared
           /\ grantedReserved' = grantedReserved]_vars

\* updateSharedAllocations has run with PinCPU enabled and has left a grant
\* with exclusive CPUs only on its cpuset, which a re-pin would have changed
C19_Witness ==
    /\ pc = "done"
    /\ last.op = "updateSharedAllocations"
    /\ opt.PinCPU
    /\ trigger # NoGrant
    /\ \E d \in GrantedIDs \ {trigger.container} :
          /\ grants[d].cpuType = cpuNormal
          /\ grants[d].exclusive # {}
          /\ grants[d].portion = 0
          /\ cpusetCpus[d] # <<>>
          /\ cpusetCpus[d] # UpdatedCpuset(grants[d])

(***************************************************************************)
(* Properties of the topology-hint rung (CmpSpec)                          *)
(***************************************************************************)
\* the rungs above the hint rung leave pools a and b tied, in both orders
TiedAboveHints(a, b) ==
    /\ SufficiencyRung(request.cpuType, scores[a], scores[b]) = "tie"
    /\ SufficiencyRung(request.cpuType, scores[b], scores[a]) = "tie"
    /\ affinityScore(affinity, a) = affinityScore(affinity, b)
    /\ OfferRung(request, scores[a].offer, scores[b].offer) = "tie"
    /\ OfferRung(request, scores[b].offer, scores[a].offer) = "tie"
    /\ MemTypeRung(request, scores[a], scores[b]) = "tie"
    /\ MemTypeRung(request, scores[b], scores[a]) = "tie"

\* the combined hint score of pool n
CombinedHint(n) == combineHintScores(scores[n].hints)[1]

\* C20: of two pools tied on sufficiency, affinity, memory offer and memory
\* type, the one with the higher combined hint score is ranked first by
\* compareScores in both argument orders, also when only one of the two has
\* any hint score.
C20_HintRuleEitherSide ==
    \A a \in Pools : \A b \in Pools \ {a} :
        (TiedAboveHints(a, b) /\ CombinedHint(a) > CombinedHint(b))
            => (Less(a, b) /\ ~Less(b, a))

(***************************************************************************)
(* Properties of the memory-offer rung (CmpSpec)                           *)
(***************************************************************************)
\* the sufficiency and affinity rungs leave pools a and b tied
TiedAboveOffer(a, b) ==
    /\ SufficiencyRung(request.cpuType, scores[a], scores[b]) = "tie"
    /\ SufficiencyRung(request.cpuType, scores[b], scores[a]) = "tie"
    /\ affinityScore(affinity, a) = affinityScore(affinity, b)

\* the memory types of the offer of pool n are those the request asks for
OfferTypeMatches(n) ==
    memZoneType(scores[n].offer[1]) = TypeMask(request.memType)

\* the number of nodes in the offer of pool n
OfferSize(n) == Cardinality(scores[n].offer[1])

\* pool a is ranked before pool b in both argument orders
RankedFirst(a, b) == Less(a, b) /\ ~Less(b, a)

\* C21: of two pools tied on sufficiency and affinity, one with a memory
\* offer is ranked before one without; with two offers and a memory type
\* mask in the request, the pool whose offer has exactly the requested
\* memory types is ranked before one whose offer has not; and with the
\* types tied too, the pool with fewer nodes in its offer is ranked first.
C21_MemoryOfferRule ==
    \A a \in Pools : \A b \in Pools \ {a} :
        TiedAboveOffer(a, b) =>
            /\ (scores[a].offer # NoOffer /\ scores[b].offer = NoOffer)
                   => RankedFirst(a, b)
            /\ (scores[a].offer # NoOffer /\ scores[b].offer # NoOffer)
                   => /\ (/\ TypeMask(request.memType) # {}
                          /\ OfferTypeMatches(a) /\ ~OfferTypeMatches(b))
                             => RankedFirst(a, b)
                      /\ (/\ OfferTypeMatches(a) <=> OfferTypeMatches(b)
                          /\ OfferSize(a) < OfferSize(b))
                             => RankedFirst(a, b)

\* the sort has put a pool whose offer has the requested memory types before
\* a pool of the same depth and lower id whose offer is as small but has
\* other memory types too
C21_Witness ==
    /\ TypeMask(request.memType) # {}
    /\ \E a \in Pools : \E b \in Pools \ {a} :
          /\ TiedAboveOffer(a, b)
          /\ scores[a].offer # NoOffer /\ scores[b].offer # NoOffer
          /\ OfferTypeMatches(a) /\ ~OfferTypeMatches(b)
          /\ OfferSize(a) >= OfferSize(b)
          /\ b < a /\ RootDistance(a) = RootDistance(b)
          /\ Rank(a) < Rank(b)

(***************************************************************************)
(* Properties of the metrics projection (MetricsSpec)                      *)
(***************************************************************************)
\* the list is in ascending order
Ascending(l) ==
    \A a \in 1 .. Len(l) : \A b \in a + 1 .. Len(l) : ~StrLess(l[b], l[a])

\* the groups of balloon i with a count above zero
CountedGroups(i) ==
    {g \in DOMAIN balloons[i].Groups : balloons[i].Groups[g] > 0}

\* the containers of balloon i that the cache finds
FoundContainers(i) == {c \in cached : BalloonOf(c) = i}

\* the label is the comma-joined ascending list of the groups of balloon i
\* with a count above zero
IsGroupsLabel(label, i) ==
    \E l \in Perms(CountedGroups(i)) : Ascending(l) /\ label = Join(l, Comma)

\* the label is the comma-joined ascending list of the names of the
\* containers of balloon i that the cache finds
IsContainersLabel(label, i) ==
    \E l \in Perms(FoundContainers(i)) :
        LET names == [k \in 1 .. Len(l) |-> PrettyName(l[k])]
        IN  Ascending(names) /\ label = Join(names, Comma)

\* C22: two GetMetrics/Collect runs on an unchanged balloon state give the
\* same label tuples for every balloon, whatever the order the group map
\* and the pod map are ranged over; the groups label is the ascending
\* comma-joined list of the groups with a count above zero, the containers
\* label that of the names of the containers found in the cache.
C22_DeterministicLabels ==
    /\ run = 2 => samples = prev
    /\ run >= 1 =>
          /\ Len(samples) = Len(balloons)
          /\ \A i \in 1 .. Len(samples) :
                /\ IsGroupsLabel(samples[i].labels[6], i)
                /\ IsContainersLabel(samples[i].labels[20], i)

\* two snapshots of the same state were collected, of a balloon with two
\* counted groups and two pods whose containers the cache finds
C22_Witness ==
    /\ run = 2
    /\ \E i \in 1 .. Len(balloons) :
          /\ Cardinality(CountedGroups(i)) = 2
          /\ Cardinality(DOMAIN balloons[i].PodIDs) = 2
          /\ Cardinality(FoundContainers(i)) = 2

\* C23: Collect sends one sample for every balloon of the Metrics, with the
\* number of CPUs of the balloon as its value and with the sizes of the
\* CPU set, the shared idle CPU set and their union as the labels
\* cpus_count, sharedidlecpus_count and cpus_allowed_count, the sets being
\* those the balloon had when GetMetrics ran; for a nil Metrics it sends
\* nothing.
C23_OneSamplePerBalloon ==
    [][/\ Collect =>
            IF metrics = NilMetrics THEN samples' = <<>>
            ELSE /\ Len(samples') = Len(metrics.Balloons)
                 /\ \A i \in 1 .. Len(metrics.Balloons) :
                       LET bm == metrics.Balloons[i]
                           s == samples'[i]
                       IN  /\ s.value = Cardinality(bm.Cpus)
                           /\ s.labels[8] = Itoa(Cardinality(bm.Cpus))
                           /\ s.labels[16] = Itoa(Cardinality(bm.SharedIdleCpus))
                           /\ s.labels[18] =
                                 Itoa(Cardinality(bm.Cpus \cup bm.SharedIdleCpus))
       /\ GetMetrics =>
            /\ Len(metrics'.Balloons) = Len(balloons)
            /\ \A i \in 1 .. Len(balloons) :
                  /\ metrics'.Balloons[i].Cpus = balloons[i].Cpus
                  /\ metrics'.Balloons[i].SharedIdleCpus = balloons[i].SharedIdleCpus
      ]_vars

\* two samples were sent, one of a balloon with CPUs of its own and shared
\* idle CPUs
C23_Witness ==
    /\ Len(samples) = 2
    /\ \E i \in 1 .. 2 :
          /\ samples[i].value > 0
          /\ samples[i].labels[16] # Itoa(0)
          /\ samples[i].labels[18] # samples[i].labels[8]

(***************************************************************************)
(* Properties of the hint tie-break (CmpSpec)                              *)
(***************************************************************************)
\* the combined and the zero-filtered hint score of pool n
HintScoresOf(n) == combineHintScores(scores[n].hints)

\* pool a before pool b by depth, then by id
DeeperThenSmallerID(a, b) ==
    \/ RootDistance(a) > RootDistance(b)
    \/ RootDistance(a) = RootDistance(b) /\ a < b

\* what compareScores(a, b) returns from the priority-capacity rule on
FromPrioRule(a, b) ==
    LET r6 == PrioRung(request, scores[a], scores[b])
        r7 == DepthRung(RootDistance(a), RootDistance(b))
        r8 == KindRung(request, scores[a], scores[b], a, b)
    IN  IF r6 # "tie" THEN r6 = "true"
        ELSE IF r7 # "tie" THEN r7 = "true"
        ELSE IF r8 # "tie" THEN r8 = "true"
        ELSE a < b

\* C24: for two pools that reach the hint rule with hint scores on the
\* first pool and with equal combined and equal zero-filtered hint scores,
\* compareScores returns the order by depth (deeper first) and then by
\* smaller id, whatever the priority capacities and the kind-specific
\* rules say, unless both scores are zero; with both scores zero it breaks
\* no tie on hints and returns what the rules from the priority-capacity
\* rule on return.
C24_HintTieBreak ==
    \A a \in Pools : \A b \in Pools \ {a} :
        (/\ TiedAboveHints(a, b)
         /\ Len(scores[a].hints) > 0
         /\ HintScoresOf(a) = HintScoresOf(b))
            => Less(a, b) = IF HintScoresOf(a) # <<0, 0>>
                            THEN DeeperThenSmallerID(a, b)
                            ELSE FromPrioRule(a, b)

\* the sort has put a pool with hint scores that are all zero before a pool
\* of the same depth and smaller id with equal hint scores
C24_Witness ==
    \E a \in Pools : \E b \in Pools \ {a} :
        /\ TiedAboveHints(a, b)
        /\ Len(scores[a].hints) > 0
        /\ HintScoresOf(a) = <<0, 0>>
        /\ HintScoresOf(b) = <<0, 0>>
        /\ b < a /\ RootDistance(a) = RootDistance(b)
        /\ Rank(a) < Rank(b)

(***************************************************************************)
(* Properties of the affinity score (CmpSpec)                              *)
(***************************************************************************)
\* the number of tree edges between a pool and a pool above or below it
TreeDistance(x, n) ==
    IF RootDistance(x) >= RootDistance(n)
    THEN RootDistance(x) - RootDistance(n)
    ELSE RootDistance(n) - RootDistance(x)

\* the sum over the pools x of S of 0.75^distance(x, n) * affinity[x], in
\* units of 1 / 4^TreeDepth
RECURSIVE DilutedSum(_, _)
DilutedSum(S, n) ==
    IF S = {} THEN 0
    ELSE LET x == CHOOSE y \in S : TRUE
             d == TreeDistance(x, n)
         IN  Pow(3, d) * Pow(4, TreeDepth - d) * affinity[x]
             + DilutedSum(S \ {x}, n)

\* the sufficiency rung leaves pools a and b tied, in both orders
SufficiencyTied(a, b) ==
    /\ SufficiencyRung(request.cpuType, scores[a], scores[b]) = "tie"
    /\ SufficiencyRung(request.cpuType, scores[b], scores[a]) = "tie"

\* pool p is the only one with an affinity weight, and it is positive
OnlyAffinity(p) ==
    affinity[p] > 0 /\ \A q \in Pools \ {p} : affinity[q] = 0

\* C25: the affinity score of a pool is the sum of 0.75^distance times the
\* affinity weight over its ancestors and the pools of its subtree, itself
\* counted once; so a pool that alone has a positive affinity weight, all
\* others having none, has the highest affinity score and is ranked by
\* compareScores before every pool it is tied with on sufficiency.
C25_AffinityPlacement ==
    /\ \A n \in Pools :
          affinityScore(affinity, n) = DilutedSum(Ancestors(n) \cup Subtree(n), n)
    /\ \A p \in Pools : OnlyAffinity(p) =>
          \A b \in Pools \ {p} :
              /\ affinityScore(affinity, p) > affinityScore(affinity, b)
              /\ SufficiencyTied(p, b) => RankedFirst(p, b)

\* the sort has put the only pool with an affinity weight first, before a
\* pool of the same depth and smaller id and before one with a memory offer
\* where it has none itself
C25_Witness ==
    \E p \in Pools :
        /\ OnlyAffinity(p)
        /\ sorted[1] = p
        /\ \A b \in Pools \ {p} : SufficiencyTied(p, b)
        /\ \E b \in Pools \ {p} : b < p /\ RootDistance(b) = RootDistance(p)
        /\ scores[p].offer = NoOffer
        /\ \E b \in Pools \ {p} : scores[b].offer # NoOffer

(***************************************************************************)
(* Further properties of the allocator (Spec)                              *)
(***************************************************************************)
\* the CPUs that are out of the free supply of the pools
TakenCPUs == (AllCPUs \ sysReserved) \ (freeIsolated \cup freeSharable)

\* the exclusive CPUs of the grants of the allocations table
HeldCPUs == UNION {grants[c].exclusive : c \in GrantedIDs}

\* C26: after any sequence of allocatePool and releasePool calls, also when
\* a container that has a grant is admitted again without a release, every
\* CPU that is out of the free supply of the pools is a CPU of a grant of
\* the allocations table.
C26_NoCpuOutlivesGrant == TakenCPUs \subseteq HeldCPUs

\* would allocatePool succeed in the current state for the request, the
\* pool hint and the answers of its collaborators ?
AdmitSucceeds(req, poolHint, failing, aff) ==
    \E r \in {PickPool(req, poolHint, failing, aff)} :
        /\ r.err = ""
        /\ Allocate(CHOOSE c \in Containers : TRUE, r.pool, r.request, r.offer) # {}

\* C28: a pool hint never makes an admit fail that succeeds without it: for
\* every state and every request of normal kind, when allocatePool with an
\* empty pool hint succeeds, allocatePool with a pool hint succeeds too.
C28_HintNeverFails ==
    [][(/\ Admits
        /\ pick'.req.cpuType = cpuNormal
        /\ pick'.env.poolHint # ""
        /\ AdmitSucceeds(pick'.req, "", pick'.env.failing, pick'.env.aff))
           => last'.ok]_vars

\* the step is a releasePool call
Releases == pc = "idle" /\ last'.op = "releasePool"

\* C29: releasePool of a container that has a grant takes its id out of the
\* allocations table, leaves every other grant as it is, saves the
\* allocations and returns the grant; for a container without a grant it
\* returns (nil, false), leaves the allocations table and every supply as
\* they are and does not save.
C29_ReleaseFrame ==
    [][Releases =>
         \E c \in {last'.container} :
            IF grants[c] # NoGrant
            THEN /\ last'.ok
                 /\ trigger' = grants[c]
                 /\ grants'[c] = NoGrant
                 /\ \A d \in Containers \ {c} : grants'[d] = grants[d]
                 /\ last'.saved
                 /\ saved' = grants'
            ELSE /\ ~last'.ok
                 /\ grants' = grants
                 /\ Supplies' = Supplies
                 /\ grantedShared' = grantedShared
                 /\ grantedReserved' = grantedReserved
                 /\ ~last'.saved
                 /\ saved' = saved]_vars

\* releasePool has released the grant of one container while the other
\* container keeps a grant with exclusive CPUs
C29_Witness ==
    /\ last.op = "releasePool"
    /\ last.ok
    /\ pc = "update"
    /\ \E d \in GrantedIDs : d # last.container /\ grants[d].exclusive # {}

(***************************************************************************)
(* Further properties of the topology builder (TopoSpec)                   *)
(***************************************************************************)
\* the assignments of the loop over `closest` when it visits the nodes in
\* the given order
RECURSIVE AssignedInOrder(_, _)
AssignedInOrder(order, asg) ==
    IF Len(order) = 0 THEN asg
    ELSE LET takerID == Taker(Closest(order[1]), 1, Nil, surrogates, asg)
         IN  AssignedInOrder(Tail(order),
                 Put(asg, surrogates[takerID],
                     Append(Get(asg, surrogates[takerID]), order[1])))

\* what assignNUMANodes returns for the nodes xmem when every loop visits
\* its nodes in ascending order
AssignedAscending(xmem) ==
    PrependDRAM(SortedMembers(DramNodes), 1, surrogates,
                AssignedInOrder(SortedMembers(xmem), EmptyMap))

\* C27: the NUMA nodes of every pool depend on the hardware snapshot alone:
\* whatever order the PMEM, HBM and DRAM nodes are visited in, every pool
\* gets the NUMA nodes it gets when they are visited in ascending order.
C27_AssignmentOrderFree ==
    (phase = "built" /\ DramNodes # {}) =>
        \A n \in DOMAIN discovered :
            IDs(discovered[n])
                = IDs(Get(Merged(AssignedAscending(PmemNodes),
                                 AssignedAscending(HbmNodes)), n))

====
